---- MODULE Spec2Model ----
(***************************************************************************)
(* nano-light: the pattern-priority tokenizer of src/src/highlight.ts and  *)
(* its HTML -> JavaScript context switch.  Source text is a sequence of    *)
(* one-character strings; offsets are 0-based as in the code, so the       *)
(* character at offset i of code is code[i + 1].  Every regular expression *)
(* of the pattern tables is an operator giving, for a start offset, the    *)
(* end offset of the match the backtracking matcher returns there.  The    *)
(* exported functions highlight, escapeHtml and detectLanguage (utils.ts)  *)
(* take JavaScript values of any kind, which are records of kind and       *)
(* content.                                                                *)
(***************************************************************************)
EXTENDS Integers, Sequences, FiniteSets, TLC

(***************************************************************************)
(* Bounds of the model.                                                    *)
(***************************************************************************)
MaxJsFrags == 4

MaxHtmlFrags == 4

\* The number of fragments of a text given to highlight.
MaxApiFrags == 3

\* The number of fragments of a text given to escapeHtml.
MaxEscapeFrags == 4

\* The number of fragments of a text given to detectLanguage.
MaxDetectFrags == 4

NoMatch == 0 - 1

(***************************************************************************)
(* Character classes of the regular expressions.                           *)
(***************************************************************************)
LowerLetters ==
  {"a","b","c","d","e","f","g","h","i","j","k","l","m",
   "n","o","p","q","r","s","t","u","v","w","x","y","z"}

UpperLetters ==
  {"A","B","C","D","E","F","G","H","I","J","K","L","M",
   "N","O","P","Q","R","S","T","U","V","W","X","Y","Z"}

Letters == LowerLetters \cup UpperLetters

Digits == {"0","1","2","3","4","5","6","7","8","9"}

HexDigits == Digits \cup {"a","b","c","d","e","f","A","B","C","D","E","F"}

WordChars == Letters \cup Digits \cup {"_"}

\* The characters a TLA+ string cannot hold stand under the name of their
\* code point: the vertical tab, and the line and paragraph separators.
VerticalTab == "U+000B"

LineSeparator == "U+2028"

ParagraphSeparator == "U+2029"

\* The space separators beyond U+0020, and the byte order mark.
UnicodeSpaces ==
  {"U+00A0", "U+1680", "U+2000", "U+2001", "U+2002", "U+2003", "U+2004", "U+2005",
   "U+2006", "U+2007", "U+2008", "U+2009", "U+200A", "U+202F", "U+205F", "U+3000",
   "U+FEFF"}

\* The line terminators: what '.' does not match and where '$' of flag m holds.
LineTerminators == {"\n", "\r", LineSeparator, ParagraphSeparator}

\* The class \s, which is also what String.prototype.trim strips.
WhiteSpace == {" ", "\t", VerticalTab, "\f"} \cup UnicodeSpaces \cup LineTerminators

OperatorChars == {"+","-","*","%","=","!","<",">","&","|","^","~","?",":"}

AttrNameChars == Letters \cup Digits \cup {":", "_", "-"}

\* The backtick character U+0060, which a TLA+ string cannot hold, under a name.
Backtick == "BT"

\* The lower-case form of a character, for the matchers compiled with flag i.
ToLower(c) ==
  CASE c = "A" -> "a" [] c = "B" -> "b" [] c = "C" -> "c" [] c = "D" -> "d"
    [] c = "E" -> "e" [] c = "F" -> "f" [] c = "G" -> "g" [] c = "H" -> "h"
    [] c = "I" -> "i" [] c = "J" -> "j" [] c = "K" -> "k" [] c = "L" -> "l"
    [] c = "M" -> "m" [] c = "N" -> "n" [] c = "O" -> "o" [] c = "P" -> "p"
    [] c = "Q" -> "q" [] c = "R" -> "r" [] c = "S" -> "s" [] c = "T" -> "t"
    [] c = "U" -> "u" [] c = "V" -> "v" [] c = "W" -> "w" [] c = "X" -> "x"
    [] c = "Y" -> "y" [] c = "Z" -> "z"
    [] OTHER -> c

(***************************************************************************)
(* Primitives of matching.                                                 *)
(***************************************************************************)
CharAt(code, i) == code[i + 1]

\* String.prototype.slice(s, e) for 0 <= s <= e <= length.
Slice(code, s, e) == SubSeq(code, s + 1, e)

\* \b: exactly one of the characters before and after offset i is a word character.
WordBoundary(code, i) ==
  ((i > 0) /\ (CharAt(code, i - 1) \in WordChars))
    # ((i < Len(code)) /\ (CharAt(code, i) \in WordChars))

\* The literal lit occurs in code at offset i.
StartsWith(code, i, lit) ==
  /\ i >= 0
  /\ i + Len(lit) <= Len(code)
  /\ \A k \in 1..Len(lit) : code[i + k] = lit[k]

\* The same, ignoring case (flag i).
StartsWithCI(code, i, lit) ==
  /\ i >= 0
  /\ i + Len(lit) <= Len(code)
  /\ \A k \in 1..Len(lit) : ToLower(code[i + k]) = ToLower(lit[k])

\* End offset of the longest run of characters of class S that starts at i (a greedy S*).
RunIn(code, i, S) ==
  CHOOSE j \in i..Len(code) :
    /\ \A k \in i..(j - 1) : CharAt(code, k) \in S
    /\ (j = Len(code)) \/ (CharAt(code, j) \notin S)

\* End offset of the longest run of characters outside S that starts at i (a greedy [^S]*).
RunNotIn(code, i, S) ==
  CHOOSE j \in i..Len(code) :
    /\ \A k \in i..(j - 1) : CharAt(code, k) \notin S
    /\ (j = Len(code)) \/ (CharAt(code, j) \in S)

\* Least offset >= from at which lit occurs, or NoMatch (a lazy [\s\S]*? before lit).
Find(code, from, lit) ==
  LET hits == {j \in from..Len(code) : StartsWith(code, j, lit)}
  IN  IF hits = {} THEN NoMatch
      ELSE CHOOSE j \in hits : \A k \in hits : j <= k

FindCI(code, from, lit) ==
  LET hits == {j \in from..Len(code) : StartsWithCI(code, j, lit)}
  IN  IF hits = {} THEN NoMatch
      ELSE CHOOSE j \in hits : \A k \in hits : j <= k

(***************************************************************************)
(* The JavaScript pattern table (src/src/patterns/javascript.ts).          *)
(***************************************************************************)

\* /\/\/.*$/ : with flag m the $ holds before a line terminator, without
\* it only at the end of the input.
MatchSingleLineComment(code, i, multiline) ==
  IF ~StartsWith(code, i, <<"/", "/">>) THEN NoMatch
  ELSE LET r == RunNotIn(code, i + 2, LineTerminators)
       IN  IF multiline \/ r = Len(code) THEN r ELSE NoMatch

\* /\/\*[\s\S]*?\*\//
MatchMultiLineComment(code, i) ==
  IF ~StartsWith(code, i, <<"/", "*">>) THEN NoMatch
  ELSE LET c == Find(code, i + 2, <<"*", "/">>)
       IN  IF c = NoMatch THEN NoMatch ELSE c + 2

\* The template-literal regex, BT standing for the backtick:
\*   /BT(?:[^BT\\$]|\\.|\$(?!\{)|\$\{[^}]*\})*BT/
\* TemplateBody is its body and closing backtick from offset j.
RECURSIVE TemplateBody(_, _)
TemplateBody(code, j) ==
  IF j >= Len(code) THEN NoMatch
  ELSE LET c == CharAt(code, j)
       IN  CASE c = Backtick -> j + 1
             [] c = "\\" ->
                  IF j + 1 < Len(code) /\ CharAt(code, j + 1) \notin LineTerminators
                  THEN TemplateBody(code, j + 2)
                  ELSE NoMatch
             [] c = "$" ->
                  IF j + 1 < Len(code) /\ CharAt(code, j + 1) = "{"
                  THEN LET k == Find(code, j + 2, <<"}">>)
                       IN  IF k = NoMatch THEN NoMatch ELSE TemplateBody(code, k + 1)
                  ELSE TemplateBody(code, j + 1)
             [] OTHER -> TemplateBody(code, j + 1)

MatchTemplateLiteral(code, i) ==
  IF i < Len(code) /\ CharAt(code, i) = Backtick THEN TemplateBody(code, i + 1) ELSE NoMatch

\* The body and closing quote of /q(?:[^q\\]|\\X)*q/ from offset j, where X is
\* [\s\S] (dotAll) or . (any character but a line terminator).
RECURSIVE QuotedBody(_, _, _, _)
QuotedBody(code, j, q, dotAll) ==
  IF j >= Len(code) THEN NoMatch
  ELSE LET c == CharAt(code, j)
       IN  CASE c = q -> j + 1
             [] c = "\\" ->
                  IF j + 1 < Len(code) /\ (dotAll \/ CharAt(code, j + 1) \notin LineTerminators)
                  THEN QuotedBody(code, j + 2, q, dotAll)
                  ELSE NoMatch
             [] OTHER -> QuotedBody(code, j + 1, q, dotAll)

MatchQuoted(code, i, q, dotAll) ==
  IF i < Len(code) /\ CharAt(code, i) = q THEN QuotedBody(code, i + 1, q, dotAll) ELSE NoMatch

\* 0[xX][\da-fA-F]+[nN]? , 0[bB][01]+[nN]? , 0[oO][0-7]+[nN]? , each followed by \b.
MatchRadix(code, i, marks, digits) ==
  IF /\ i + 2 < Len(code)
     /\ CharAt(code, i) = "0"
     /\ CharAt(code, i + 1) \in marks
     /\ CharAt(code, i + 2) \in digits
  THEN LET r == RunIn(code, i + 2, digits)
           e == IF r < Len(code) /\ CharAt(code, r) \in {"n", "N"} THEN r + 1 ELSE r
       IN  IF WordBoundary(code, e) THEN e ELSE NoMatch
  ELSE NoMatch

\* \d+[nN] followed by \b.
MatchBigInt(code, i) ==
  LET r == RunIn(code, i, Digits)
  IN  IF r > i /\ r < Len(code) /\ CharAt(code, r) \in {"n", "N"} /\ WordBoundary(code, r + 1)
      THEN r + 1
      ELSE NoMatch

\* \d*\.?\d+(?:[eE][+-]?\d+)? followed by \b: every way the quantifiers can
\* split the text, and the one the backtracking matcher reaches first
\* (greedy: longer before shorter, present before absent).
DecimalParses(code, i) ==
  LET n == Len(code)
      d0 == RunIn(code, i, Digits) - i
  IN  UNION { UNION { UNION { UNION {
        LET q == i + a + dot
            r == q + b
            sg == IF r + 1 < n /\ CharAt(code, r + 1) \in {"+", "-"} THEN 1 ELSE 0
            x0 == r + 1 + sg
            ed == IF x = 1 /\ r < n /\ CharAt(code, r) \in {"e", "E"} /\ x0 <= n
                  THEN 1..(RunIn(code, x0, Digits) - x0) ELSE {}
        IN  IF x = 0
            THEN {[key |-> (((a * 2 + dot) * (n + 1) + b) * 2) * (n + 1), end |-> r]}
            ELSE {[key |-> (((a * 2 + dot) * (n + 1) + b) * 2 + 1) * (n + 1) + k,
                   end |-> x0 + k] : k \in ed}
        : x \in {0, 1} }
        : b \in 1..(IF i + a + dot <= n THEN RunIn(code, i + a + dot, Digits) - (i + a + dot) ELSE 0) }
        : dot \in {z \in {0, 1} : z = 0 \/ (i + a < n /\ CharAt(code, i + a) = ".")} }
        : a \in 0..d0 }

MatchDecimal(code, i) ==
  LET ok == {p \in DecimalParses(code, i) : WordBoundary(code, p.end)}
  IN  IF ok = {} THEN NoMatch
      ELSE (CHOOSE p \in ok : \A o \in ok : o.key <= p.key).end

\* /\b(?:0[xX]...|0[bB]...|0[oO]...|\d+[nN]|\d*\.?\d+(?:[eE][+-]?\d+)?)\b/ : the
\* first alternative that matches together with the closing \b.
MatchNumber(code, i) ==
  IF ~WordBoundary(code, i) THEN NoMatch
  ELSE LET hex == MatchRadix(code, i, {"x", "X"}, HexDigits)
           bin == MatchRadix(code, i, {"b", "B"}, {"0", "1"})
           oct == MatchRadix(code, i, {"o", "O"}, {"0","1","2","3","4","5","6","7"})
           big == MatchBigInt(code, i)
       IN  CASE hex # NoMatch -> hex
             [] hex = NoMatch /\ bin # NoMatch -> bin
             [] hex = NoMatch /\ bin = NoMatch /\ oct # NoMatch -> oct
             [] hex = NoMatch /\ bin = NoMatch /\ oct = NoMatch /\ big # NoMatch -> big
             [] OTHER -> MatchDecimal(code, i)

Keywords == <<
    <<"a","l","e","r","t">>, <<"a","r","g","u","m","e","n","t","s">>, <<"a","s","y","n","c">>,
    <<"a","w","a","i","t">>, <<"b","r","e","a","k">>, <<"c","a","s","e">>,
    <<"c","a","t","c","h">>, <<"c","l","a","s","s">>, <<"c","o","n","s","t">>,
    <<"c","o","n","t","i","n","u","e">>, <<"d","e","b","u","g","g","e","r">>, <<"d","e","f","a","u","l","t">>,
    <<"d","e","l","e","t","e">>, <<"d","o">>, <<"e","l","s","e">>,
    <<"e","v","a","l">>, <<"e","x","p","o","r","t">>, <<"e","x","t","e","n","d","s">>,
    <<"f","a","l","s","e">>, <<"f","i","n","a","l","l","y">>, <<"f","o","r">>,
    <<"f","u","n","c","t","i","o","n">>, <<"i","f">>, <<"i","m","p","o","r","t">>,
    <<"i","n">>, <<"i","n","s","t","a","n","c","e","o","f">>, <<"l","e","t">>,
    <<"n","e","w">>, <<"n","u","l","l">>, <<"r","e","t","u","r","n">>,
    <<"s","t","a","t","i","c">>, <<"s","u","p","e","r">>, <<"s","w","i","t","c","h">>,
    <<"t","h","i","s">>, <<"t","h","r","o","w">>, <<"t","r","u","e">>,
    <<"t","r","y">>, <<"t","y","p","e","o","f">>, <<"u","n","d","e","f","i","n","e","d">>,
    <<"v","a","r">>, <<"v","o","i","d">>, <<"w","h","i","l","e">>,
    <<"w","i","t","h">>, <<"y","i","e","l","d">>
>>

\* /\b(?:alert|...|yield)\b/ : the first keyword of the alternation that
\* occurs at i and ends at a word boundary.
MatchKeyword(code, i) ==
  IF ~WordBoundary(code, i) THEN NoMatch
  ELSE LET ok == {k \in 1..Len(Keywords) :
                    /\ StartsWith(code, i, Keywords[k])
                    /\ WordBoundary(code, i + Len(Keywords[k]))}
       IN  IF ok = {} THEN NoMatch
           ELSE i + Len(Keywords[CHOOSE k \in ok : \A o \in ok : k <= o])

\* /[+\-*%=!<>&|^~?:]+|&&|...|\.\.\.|.../ : the first alternative takes every
\* run of operator characters; of the others only \.\.\. starts elsewhere.
MatchOperator(code, i) ==
  IF i < Len(code) /\ CharAt(code, i) \in OperatorChars THEN RunIn(code, i, OperatorChars)
  ELSE IF StartsWith(code, i, <<".", ".", ".">>) THEN i + 3
  ELSE NoMatch

JsPatterns == <<
  [name |-> "single-line-comment", type |-> "comment",  flags |-> {"g", "m"}],
  [name |-> "multi-line-comment",  type |-> "comment",  flags |-> {"g"}],
  [name |-> "template-literal",    type |-> "string",   flags |-> {"g"}],
  [name |-> "double-string",       type |-> "string",   flags |-> {"g"}],
  [name |-> "single-string",       type |-> "string",   flags |-> {"g"}],
  [name |-> "number",              type |-> "number",   flags |-> {"g"}],
  [name |-> "keyword",             type |-> "keyword",  flags |-> {"g"}],
  [name |-> "operator",            type |-> "operator", flags |-> {"g"}] >>

(***************************************************************************)
(* The HTML pattern table and the script locator (src/src/patterns/html.ts)*)
(***************************************************************************)

\* /<!--[\s\S]*?-->/
MatchHtmlComment(code, i) ==
  IF ~StartsWith(code, i, <<"<", "!", "-", "-">>) THEN NoMatch
  ELSE LET c == Find(code, i + 4, <<"-", "-", ">">>)
       IN  IF c = NoMatch THEN NoMatch ELSE c + 3

\* /\b[a-zA-Z][a-zA-Z0-9:_-]*(?=\s*=)/
MatchAttrName(code, i) ==
  IF i < Len(code) /\ WordBoundary(code, i) /\ CharAt(code, i) \in Letters
  THEN LET r == RunIn(code, i + 1, AttrNameChars)
           w == RunIn(code, r, WhiteSpace)
       IN  IF w < Len(code) /\ CharAt(code, w) = "=" THEN r ELSE NoMatch
  ELSE NoMatch

\* /<\/?[a-zA-Z][\w:_-]*[^>]*>/
MatchTag(code, i) ==
  IF i < Len(code) /\ CharAt(code, i) = "<"
  THEN LET j == IF i + 1 < Len(code) /\ CharAt(code, i + 1) = "/" THEN i + 2 ELSE i + 1
       IN  IF j < Len(code) /\ CharAt(code, j) \in Letters
           THEN LET g == RunNotIn(code, j + 1, {">"})
                IN  IF g < Len(code) THEN g + 1 ELSE NoMatch
           ELSE NoMatch
  ELSE NoMatch

\* A pattern a table may hold whose matches can be empty: /[a-zA-Z]*/.
MatchLettersOptional(code, i) == RunIn(code, i, Letters)

LettersOptional == [name |-> "letters-optional", type |-> "attr-name", flags |-> {"g"}]

HtmlPatterns == <<
  [name |-> "html-comment",      type |-> "comment",    flags |-> {"g"}],
  [name |-> "attr-value-double", type |-> "attr-value", flags |-> {"g"}],
  [name |-> "attr-value-single", type |-> "attr-value", flags |-> {"g"}],
  [name |-> "attr-name",         type |-> "attr-name",  flags |-> {"g"}],
  [name |-> "tag",               type |-> "tag",        flags |-> {"g", "i"}] >>

\* scriptTagOpen: /<script\b[^>]*>/ with flags gi.
MatchScriptTagOpen(code, i) ==
  IF StartsWithCI(code, i, <<"<","s","c","r","i","p","t">>) /\ WordBoundary(code, i + 7)
  THEN LET g == RunNotIn(code, i + 7, {">"})
       IN  IF g < Len(code) THEN g + 1 ELSE NoMatch
  ELSE NoMatch

ScriptClose == <<"<","/","s","c","r","i","p","t",">">>

\* Variant: the end of the text closes a script region that has no closing delimiter.
MatchScriptTagContentToEnd(code, i) ==
  LET o == MatchScriptTagOpen(code, i)
      c == IF o = NoMatch THEN NoMatch ELSE FindCI(code, o, ScriptClose)
  IN  IF o = NoMatch
      THEN [end |-> NoMatch, groupStart |-> NoMatch, groupEnd |-> NoMatch]
      ELSE IF c = NoMatch
           THEN [end |-> Len(code), groupStart |-> o, groupEnd |-> Len(code)]
           ELSE [end |-> c + Len(ScriptClose), groupStart |-> o, groupEnd |-> c]

\* scriptTagContent: /<script\b[^>]*>([\s\S]*?)<\/script>/ with flags gi;
\* group is the offsets of capture group 1.
MatchScriptTagContent(code, i) ==
  LET o == MatchScriptTagOpen(code, i)
      c == IF o = NoMatch THEN NoMatch ELSE FindCI(code, o, ScriptClose)
  IN  IF c = NoMatch
      THEN [end |-> NoMatch, groupStart |-> NoMatch, groupEnd |-> NoMatch]
      ELSE [end |-> c + Len(ScriptClose), groupStart |-> o, groupEnd |-> c]

(***************************************************************************)
(* RegExp.prototype.exec of a global regex.                                *)
(***************************************************************************)

\* The matcher of the named pattern, compiled with the given flags, tried at offset i.
MatchAt(name, flags, code, i) ==
  CASE name = "single-line-comment" -> MatchSingleLineComment(code, i, "m" \in flags)
    [] name = "multi-line-comment"  -> MatchMultiLineComment(code, i)
    [] name = "template-literal"    -> MatchTemplateLiteral(code, i)
    [] name = "double-string"       -> MatchQuoted(code, i, "\"", TRUE)
    [] name = "single-string"       -> MatchQuoted(code, i, "'", TRUE)
    [] name = "number"              -> MatchNumber(code, i)
    [] name = "keyword"             -> MatchKeyword(code, i)
    [] name = "operator"            -> MatchOperator(code, i)
    [] name = "html-comment"        -> MatchHtmlComment(code, i)
    [] name = "attr-value-double"   -> MatchQuoted(code, i, "\"", FALSE)
    [] name = "attr-value-single"   -> MatchQuoted(code, i, "'", FALSE)
    [] name = "attr-name"           -> MatchAttrName(code, i)
    [] name = "tag"                 -> MatchTag(code, i)
    [] name = "letters-optional"    -> MatchLettersOptional(code, i)
    [] name = "scriptTagOpen"       -> MatchScriptTagOpen(code, i)
    [] name = "scriptTagContent"    -> MatchScriptTagContent(code, i).end

Null == [found |-> FALSE, index |-> NoMatch, end |-> NoMatch]

\* The leftmost of the matches tried, ends[i] being the end offset of the
\* match at offset i or NoMatch.
Leftmost(ends) ==
  IF \A i \in DOMAIN ends : ends[i] = NoMatch THEN Null
  ELSE LET s == CHOOSE i \in DOMAIN ends :
                  ends[i] # NoMatch /\ \A k \in DOMAIN ends : ends[k] # NoMatch => i <= k
       IN  [found |-> TRUE, index |-> s, end |-> ends[s]]

\* regex.exec(code) with the cursor at lastIndex: the leftmost match at or
\* after the cursor, or null.
Exec(name, flags, code, lastIndex) ==
  Leftmost([i \in lastIndex..Len(code) |-> MatchAt(name, flags, code, i)])

\* The cursor after one trip of a scan loop: exec leaves it at the end of the
\* match, and the loop forces it forward when it did not pass the match start.
AdvanceCursor(m) == IF m.end = m.index THEN m.end + 1 ELSE m.end

(***************************************************************************)
(* Claim set and token list.                                               *)
(***************************************************************************)

\* Overlap as it would be if only the first offset of the span were looked up.
OverlapFirstOffsetOnly(proc, s, e) == s \in proc

\* Some offset of [s, e) is in the claim set.
Overlap(proc, s, e) == \E i \in s..(e - 1) : i \in proc

\* MarkProcessed as it would be if the loop stopped one offset short of e.
MarkProcessedShortByOne(proc, s, e) == proc \cup (s..(e - 2))

\* The claim set with every offset of [s, e) added.
MarkProcessed(proc, s, e) == proc \cup (s..(e - 1))

\* MatchToken as it would be with the end offset taken inclusive.
MatchTokenInclusiveEnd(type, code, s, e) ==
  [type |-> type, value |-> Slice(code, s, e), start |-> s, end |-> e - 1]

\* The token of a match [s, e) of a pattern of the given type.
MatchToken(type, code, s, e) ==
  [type |-> type, value |-> Slice(code, s, e), start |-> s, end |-> e]

\* NewProcessed as it would be with the claim set kept at module level.
NewProcessedShared(old) == old

\* new Set<number>(): each call of a tokenizer makes its own claim set,
\* whatever the set old of the call before held.
NewProcessed(old) == {}

\* ClaimToken as it would be if the offsets were marked before the overlap check.
ClaimTokenMarksFirst(toks, proc, t) ==
  IF Overlap(proc, t.start, t.end)
  THEN [tokens |-> toks, processed |-> MarkProcessed(proc, t.start, t.end)]
  ELSE [tokens |-> Append(toks, t), processed |-> MarkProcessed(proc, t.start, t.end)]

\* The overlap check and the push of one candidate token t: t is pushed and its
\* offsets claimed, or it is dropped whole and nothing changes.
ClaimToken(toks, proc, t) ==
  IF Overlap(proc, t.start, t.end)
  THEN [tokens |-> toks, processed |-> proc]
  ELSE [tokens |-> Append(toks, t), processed |-> MarkProcessed(proc, t.start, t.end)]

\* SortByStart as it would be if the list were returned in push order.
SortByStartOmitted(toks) == toks

\* tokens.sort((a, b) => a.start - b.start): a stable sort by start.
RECURSIVE SortByStart(_)
SortByStart(toks) ==
  IF toks = <<>> THEN <<>>
  ELSE LET front == SortByStart(SubSeq(toks, 1, Len(toks) - 1))
           t == toks[Len(toks)]
           k == Cardinality({j \in 1..Len(front) : front[j].start <= t.start})
       IN  SubSeq(front, 1, k) \o <<t>> \o SubSeq(front, k + 1, Len(front))

(***************************************************************************)
(* tokenizeJavaScript as a function of its argument, as tokenizeHtml calls *)
(* it on the inner text of a script region.                                *)
(***************************************************************************)

\* The flags getCompiledPatterns and getCachedRegex compile every cached matcher with.
CachedFlags == {"g"}

\* The pattern loop from pattern p with the cursor at lastIdx.
RECURSIVE JsScan(_, _, _, _, _)
\* One trip of the while loop of pattern p, m being what exec returned.
JsScanStep(src, p, m, toks, proc) ==
  IF ~m.found
  THEN IF p = Len(JsPatterns) THEN toks ELSE JsScan(src, p + 1, 0, toks, proc)
  ELSE LET c == ClaimToken(toks, proc, MatchToken(JsPatterns[p].type, src, m.index, m.end))
       IN  JsScan(src, p, AdvanceCursor(m), c.tokens, c.processed)

JsScan(src, p, lastIdx, toks, proc) ==
  JsScanStep(src, p, Exec(JsPatterns[p].name, CachedFlags, src, lastIdx), toks, proc)

tokenizeJavaScript(src) == SortByStart(JsScan(src, 1, 0, <<>>, NewProcessed({})))

(***************************************************************************)
(* tokenizeHtml step 1: the script regions.                                *)
(***************************************************************************)

\* exec of scriptContentRegex, with the offsets of its capture group.
ScriptContentMatch(src, m) ==
  IF m.found THEN [found |-> TRUE, index |-> m.index, end |-> m.end,
                   group |-> MatchScriptTagContent(src, m.index)]
  ELSE [found |-> FALSE, index |-> NoMatch, end |-> NoMatch,
        group |-> MatchScriptTagContent(src, 0)]

ExecScriptContent(src, lastIdx) ==
  ScriptContentMatch(src, Exec("scriptTagContent", {"g", "i"}, src, lastIdx))

\* openTagMatch ? openTagMatch.index + openTagMatch[0].length : matchStart
OpenTagMatchEnd(openTagMatch, matchStart) ==
  IF openTagMatch.found THEN openTagMatch.end ELSE matchStart

\* OpenTagEnd as it would be if the fallback value were always taken.
OpenTagEndAtMatchStart(src, matchStart) == matchStart

\* openTagEnd: where the opening tag found from matchStart on ends.
OpenTagEnd(src, matchStart) ==
  OpenTagMatchEnd(Exec("scriptTagOpen", {"g", "i"}, src, matchStart), matchStart)

\* The record pushed on scriptAreas for a match of scriptContentRegex.
ScriptArea(src, m) ==
  [start |-> m.index,
   end |-> m.end,
   content |-> Slice(src, m.group.groupStart, m.group.groupEnd),
   openTagEnd |-> OpenTagEnd(src, m.index),
   closeTagStart |-> m.end - Len(ScriptClose)]

RECURSIVE LocateScan(_, _, _)
\* One trip of the step 1 loop, m being what exec returned.
LocateScanStep(src, m, areas) ==
  IF ~m.found THEN areas
  ELSE LocateScan(src, AdvanceCursor(m), Append(areas, ScriptArea(src, m)))

LocateScan(src, lastIdx, areas) == LocateScanStep(src, ExecScriptContent(src, lastIdx), areas)

(***************************************************************************)
(* tokenizeHtml step 2: the host patterns.                                 *)
(***************************************************************************)

\* InScriptContent as it would be if the whole region, delimiters included, were excluded.
InScriptContentWholeRegion(areas, s, e) ==
  \E k \in 1..Len(areas) : s >= areas[k].start /\ e <= areas[k].end

\* inScriptContent: the span [s, e) lies in the inner-text bounds of some script region.
InScriptContent(areas, s, e) ==
  \E k \in 1..Len(areas) : s >= areas[k].openTagEnd /\ e <= areas[k].closeTagStart

\* One trip of the host loop on the match m of a pattern of the given type.
HostClaim(toks, proc, areas, type, src, m) ==
  IF InScriptContent(areas, m.index, m.end)
  THEN [tokens |-> toks, processed |-> proc]
  ELSE ClaimToken(toks, proc, MatchToken(type, src, m.index, m.end))

\* The cursor after that trip: the continue of the exclusion rule skips the forced advance.
HostCursor(areas, m) ==
  IF InScriptContent(areas, m.index, m.end) THEN m.end ELSE AdvanceCursor(m)

RECURSIVE HostScan(_, _, _, _, _, _)
\* One trip of the while loop of host pattern p, m being what exec returned.
HostScanStep(src, areas, p, m, toks, proc) ==
  IF ~m.found
  THEN IF p = Len(HtmlPatterns) THEN [tokens |-> toks, processed |-> proc]
       ELSE HostScan(src, areas, p + 1, 0, toks, proc)
  ELSE LET c == HostClaim(toks, proc, areas, HtmlPatterns[p].type, src, m)
       IN  HostScan(src, areas, p, HostCursor(areas, m), c.tokens, c.processed)

HostScan(src, areas, p, lastIdx, toks, proc) ==
  HostScanStep(src, areas, p,
               Exec(HtmlPatterns[p].name, HtmlPatterns[p].flags, src, lastIdx), toks, proc)

(***************************************************************************)
(* tokenizeHtml step 3: the inner text of each script region.              *)
(***************************************************************************)

\* AdjustToken as it would be if only start were shifted.
AdjustTokenStartOnly(t, offset) ==
  [type |-> t.type, value |-> t.value, start |-> t.start + offset, end |-> t.end]

\* The token shifted from inner-text coordinates to coordinates of the document.
AdjustToken(t, offset) ==
  [type |-> t.type, value |-> t.value, start |-> t.start + offset, end |-> t.end + offset]

\* Variant: the translated tokens are all added, claimed or not.
MergeTokensUnchecked(toks, proc, adjusted, k) ==
  [tokens |-> toks \o adjusted,
   processed |-> proc \cup UNION {adjusted[n].start..(adjusted[n].end - 1) : n \in 1..Len(adjusted)}]

RECURSIVE MergeTokens(_, _, _, _)
MergeTokens(toks, proc, adjusted, k) ==
  IF k > Len(adjusted) THEN [tokens |-> toks, processed |-> proc]
  ELSE LET c == ClaimToken(toks, proc, adjusted[k])
       IN  MergeTokens(c.tokens, c.processed, adjusted, k + 1)

\* content.trim() is not empty.
HasContent(content) == \E k \in 1..Len(content) : content[k] \notin WhiteSpace

\* jsTokens shifted by openTagEnd and added under the claim check.
AddJsTokens(toks, proc, jsTokens, openTagEnd) ==
  MergeTokens(toks, proc,
              [k \in 1..Len(jsTokens) |-> AdjustToken(jsTokens[k], openTagEnd)], 1)

\* Step 3 for the script region a.
EmbedArea(toks, proc, a) ==
  IF HasContent(a.content)
  THEN AddJsTokens(toks, proc, tokenizeJavaScript(a.content), a.openTagEnd)
  ELSE [tokens |-> toks, processed |-> proc]

RECURSIVE EmbedScan(_, _, _)
\* Step 3 from the script region k on, c being the tokens and claim set so far.
EmbedScan(c, areas, k) ==
  IF k > Len(areas) THEN c
  ELSE EmbedScan(EmbedArea(c.tokens, c.processed, areas[k]), areas, k + 1)

\* Steps 2 and 3 and the sort, given the script regions of step 1.
HostAndEmbed(src, areas) ==
  SortByStart(EmbedScan(HostScan(src, areas, 1, 0, <<>>, NewProcessed({})), areas, 1).tokens)

\* tokenizeHtml as a function of its argument.
tokenizeHtml(src) == HostAndEmbed(src, LocateScan(src, 0, <<>>))

\* tokenize as a function of its arguments.
tokenize(src, lang) == IF lang = "html" THEN tokenizeHtml(src) ELSE tokenizeJavaScript(src)

(***************************************************************************)
(* JavaScript values passed where the signature asks for a string or an    *)
(* options object: a value is a record of its kind and its content.        *)
(***************************************************************************)
Str(s) == [kind |-> "string", val |-> s]

JsNull == [kind |-> "null", val |-> 0]

JsUndefined == [kind |-> "undefined", val |-> 0]

Num(n) == [kind |-> "number", val |-> n]

Bool(b) == [kind |-> "boolean", val |-> b]

\* An object literal {}.
PlainObject == [kind |-> "object", val |-> 0]

\* Object.create(null): an object with no toString and no valueOf.
BareObject == [kind |-> "bare-object", val |-> 0]

Arr(items) == [kind |-> "array", val |-> items]

\* Symbol(description).
Sym(description) == [kind |-> "symbol", val |-> description]

\* A function, val being its source text.
Fn(source) == [kind |-> "function", val |-> source]

DigitChar(d) ==
  CASE d = 0 -> "0" [] d = 1 -> "1" [] d = 2 -> "2" [] d = 3 -> "3" [] d = 4 -> "4"
    [] d = 5 -> "5" [] d = 6 -> "6" [] d = 7 -> "7" [] d = 8 -> "8" [] d = 9 -> "9"

\* String(n) for a natural number n.
RECURSIVE NatToString(_)
NatToString(n) ==
  IF n < 10 THEN <<DigitChar(n)>>
  ELSE Append(NatToString(n \div 10), DigitChar(n % 10))

\* String(v) throws a TypeError: v has nothing to convert it, or v is an array
\* and the join of its elements meets a symbol or an element of that kind.
RECURSIVE ToStringThrows(_)
ToStringThrows(v) ==
  \/ v.kind = "bare-object"
  \/ /\ v.kind = "array"
     /\ \E k \in 1..Len(v.val) : v.val[k].kind = "symbol" \/ ToStringThrows(v.val[k])

\* String(v) for a value it converts.
RECURSIVE ToStringText(_)
ToStringText(v) ==
  CASE v.kind = "string"    -> v.val
    [] v.kind = "null"      -> <<"n","u","l","l">>
    [] v.kind = "undefined" -> <<"u","n","d","e","f","i","n","e","d">>
    [] v.kind = "number"    -> NatToString(v.val)
    [] v.kind = "boolean"   -> IF v.val THEN <<"t","r","u","e">> ELSE <<"f","a","l","s","e">>
    [] v.kind = "object"    -> <<"[","o","b","j","e","c","t"," ","O","b","j","e","c","t","]">>
    [] v.kind = "symbol"    -> <<"S","y","m","b","o","l","(">> \o v.val \o <<")">>
    [] v.kind = "function"  -> v.val
    [] v.kind = "array"     ->
         IF v.val = <<>> THEN <<>>
         ELSE LET head == IF v.val[1].kind \in {"null", "undefined"} THEN <<>>
                          ELSE ToStringText(v.val[1])
              IN  IF Len(v.val) = 1 THEN head
                  ELSE head \o <<",">> \o ToStringText(Arr(Tail(v.val)))

\* ToBoolean(v).
Truthy(v) ==
  CASE v.kind \in {"null", "undefined"} -> FALSE
    [] v.kind = "string"  -> v.val # <<>>
    [] v.kind = "number"  -> v.val # 0
    [] v.kind = "boolean" -> v.val
    [] OTHER -> TRUE

\* What a call hands back: a returned value, or an exception leaving the call.
Thrown == [kind |-> "throw", val |-> 0]

(***************************************************************************)
(* utils.ts                                                                *)
(***************************************************************************)
\* HTML_ENTITIES.
HTML_ENTITIES ==
  [c \in {"<", ">", "&", "\"", "'"} |->
     CASE c = "<"  -> <<"&","l","t",";">>
       [] c = ">"  -> <<"&","g","t",";">>
       [] c = "&"  -> <<"&","a","m","p",";">>
       [] c = "\"" -> <<"&","q","u","o","t",";">>
       [] c = "'"  -> <<"&","#","3","9",";">>]

\* Variant: the apostrophe is left as it is.
ReplacementKeepsApostrophe(c) ==
  IF c \in {"<", ">", "&", "\""} THEN HTML_ENTITIES[c] ELSE <<c>>

\* The replacement text.replace makes for one character: the callback for a
\* character the class [<>&"'] matches, the character itself otherwise.
Replacement(c) ==
  IF c \in {"<", ">", "&", "\"", "'"} THEN HTML_ENTITIES[c] ELSE <<c>>

\* text.replace(/[<>&"']/g, ...) on the characters from offset i on.
RECURSIVE ReplaceFrom(_, _)
ReplaceFrom(text, i) ==
  IF i >= Len(text) THEN <<>>
  ELSE Replacement(CharAt(text, i)) \o ReplaceFrom(text, i + 1)

\* escapeHtml of a string.
escapeText(text) == ReplaceFrom(text, 0)

\* escapeHtml of any value: what the call hands back.
escapeHtml(v) ==
  IF v.kind \in {"null", "undefined"} THEN Str(<<>>)
  ELSE IF v.kind = "string" THEN Str(escapeText(v.val))
  ELSE IF ToStringThrows(v) THEN Thrown
  ELSE Str(escapeText(ToStringText(v)))

\* The characters code.trim() strips: white space and line terminators.
TrimWhiteSpace == WhiteSpace \cup LineTerminators

\* /<[a-zA-Z!?]/ without the question mark.
TestOpeningTagNoQuestionMark(code) ==
  \E i \in 0..(Len(code) - 2) :
    CharAt(code, i) = "<" /\ CharAt(code, i + 1) \in Letters \cup {"!"}

\* /<[a-zA-Z!?]/.test(code)
TestOpeningTag(code) ==
  \E i \in 0..(Len(code) - 2) :
    CharAt(code, i) = "<" /\ CharAt(code, i + 1) \in Letters \cup {"!", "?"}

\* /<\/[a-zA-Z]/.test(code)
TestClosingTag(code) ==
  \E i \in 0..(Len(code) - 3) :
    /\ CharAt(code, i) = "<"
    /\ CharAt(code, i + 1) = "/"
    /\ CharAt(code, i + 2) \in Letters

\* /<!DOCTYPE/i.test(code)
TestDoctype(code) ==
  \E i \in 0..(Len(code) - 1) :
    StartsWithCI(code, i, <<"<","!","d","o","c","t","y","p","e">>)

\* /<!--/.test(code)
TestComment(code) ==
  \E i \in 0..(Len(code) - 1) : StartsWith(code, i, <<"<","!","-","-">>)

detectLanguage(code) ==
  IF code = <<>> \/ (\A k \in 1..Len(code) : code[k] \in TrimWhiteSpace) THEN "js"
  ELSE IF \/ TestOpeningTag(code)
          \/ TestClosingTag(code)
          \/ TestDoctype(code)
          \/ TestComment(code)
       THEN "html"
       ELSE "js"

\* The characters of a token type.
TypeText(type) ==
  CASE type = "comment"    -> <<"c","o","m","m","e","n","t">>
    [] type = "string"     -> <<"s","t","r","i","n","g">>
    [] type = "number"     -> <<"n","u","m","b","e","r">>
    [] type = "keyword"    -> <<"k","e","y","w","o","r","d">>
    [] type = "operator"   -> <<"o","p","e","r","a","t","o","r">>
    [] type = "tag"        -> <<"t","a","g">>
    [] type = "attr-name"  -> <<"a","t","t","r","-","n","a","m","e">>
    [] type = "attr-value" -> <<"a","t","t","r","-","v","a","l","u","e">>

SpanOpen == <<"<","s","p","a","n"," ","c","l","a","s","s","=","\"","t","o","k","e","n"," ">>

SpanClose == <<"<","/","s","p","a","n",">">>

wrapToken(value, type) == SpanOpen \o TypeText(type) \o <<"\"", ">">> \o value \o SpanClose

(***************************************************************************)
(* tokensToHtml and highlight.                                             *)
(***************************************************************************)
\* Variant: the text between two tokens is left out.
UnprocessedDropped(code, lastEnd, start) == <<>>

\* The escaped text between the end of the token before and the start of
\* the next one, empty when the next token starts at or before lastEnd.
Unprocessed(code, lastEnd, start) ==
  IF start > lastEnd THEN escapeText(Slice(code, lastEnd, start)) ELSE <<>>

\* The for loop of tokensToHtml from token k on and the text after the last token.
RECURSIVE RenderFrom(_, _, _, _)
RenderFrom(code, toks, k, lastEnd) ==
  IF k > Len(toks)
  THEN IF lastEnd < Len(code) THEN escapeText(Slice(code, lastEnd, Len(code))) ELSE <<>>
  ELSE Unprocessed(code, lastEnd, toks[k].start)
         \o wrapToken(escapeText(toks[k].value), toks[k].type)
         \o RenderFrom(code, toks, k + 1, toks[k].end)

\* Variant: with no token the text comes back as it was given.
RenderPlainRaw(code) == code

\* tokensToHtml for an empty token list.
RenderPlain(code) == escapeText(code)

tokensToHtml(code, toks) ==
  IF toks = <<>> THEN RenderPlain(code) ELSE RenderFrom(code, toks, 1, 0)

\* The options argument after the default of the signature: a missing or
\* undefined argument becomes {}.
OptionsObject(language) == [kind |-> "object", val |-> language]

\* An options object whose language property is a getter that throws.
OptionsThrowing == [kind |-> "object-getter-throws", val |-> 0]

DefaultOptions(o) == IF o.kind = "undefined" THEN OptionsObject(JsUndefined) ELSE o

\* Reading options?.language throws.
LanguageReadThrows(o) == o.kind = "object-getter-throws"

\* options?.language: undefined for null, for a primitive and for an object
\* without the property.
OptionLanguage(o) == IF o.kind = "object" THEN o.val ELSE JsUndefined

\* Variant: the language is always detected.
ResolveLanguageDetected(o, code) == detectLanguage(code)

\* The language highlight tokenizes with.
ResolveLanguage(o, code) ==
  LET l == OptionLanguage(o)
  IN  IF Truthy(l) /\ l # Str(<<"j","s">>) /\ l # Str(<<"h","t","m","l">>)
      THEN detectLanguage(code)
      ELSE IF Truthy(l)
           THEN (IF l = Str(<<"j","s">>) THEN "js" ELSE "html")
           ELSE detectLanguage(code)

\* Variant: a value that is not a string is taken as the empty text.
CoerceCodeEmpty(v) ==
  IF v.kind = "string" THEN [threw |-> FALSE, code |-> v]
  ELSE [threw |-> FALSE, code |-> Str(<<>>)]

\* code = String(code) for a code that is not a string: the value of code
\* afterwards, and whether the conversion threw.
CoerceCode(v) ==
  IF v.kind = "string" THEN [threw |-> FALSE, code |-> v]
  ELSE IF ToStringThrows(v) THEN [threw |-> TRUE, code |-> v]
  ELSE [threw |-> FALSE, code |-> Str(ToStringText(v))]

\* Variant: the catch block returns the text as it is.
CatchTextRaw(c) == c

\* What the catch block returns for a code that is a string.
CatchText(c) == escapeHtml(c)

\* Variant: the catch block lets the exception leave the call.
HighlightCatchRethrows(c) == Thrown

\* The catch block, c being the value of code when the exception was raised.
HighlightCatch(c) == IF c.kind = "string" THEN CatchText(c) ELSE Str(<<>>)

\* highlight up to the call of tokenize: it returns there, throws there, or
\* goes on to tokenize the text in the language.
HighlightEntry(v, opt) ==
  LET o == DefaultOptions(opt)
      c == CoerceCode(v)
  IN  IF v.kind \in {"null", "undefined"}
      THEN [outcome |-> "return", code |-> v, language |-> "js"]
      ELSE IF c.threw
      THEN [outcome |-> "throw", code |-> c.code, language |-> "js"]
      ELSE IF c.code.val = <<>>
      THEN [outcome |-> "return", code |-> c.code, language |-> "js"]
      ELSE IF LanguageReadThrows(o)
      THEN [outcome |-> "throw", code |-> c.code, language |-> "js"]
      ELSE [outcome |-> "tokenize", code |-> c.code,
            language |-> ResolveLanguage(o, c.code.val)]

\* What highlight hands back for an entry that does not reach tokenize.
EarlyOutcome(e) == IF e.outcome = "throw" THEN HighlightCatch(e.code) ELSE Str(<<>>)

\* What highlight hands back for the entry e.
HighlightOutcome(e) ==
  IF e.outcome = "tokenize"
  THEN Str(tokensToHtml(e.code.val, tokenize(e.code.val, e.language)))
  ELSE EarlyOutcome(e)

highlight(v, opt) == HighlightOutcome(HighlightEntry(v, opt))

(***************************************************************************)
(* Input texts: every concatenation of a bounded number of fragments.      *)
(***************************************************************************)
JsFrags == {
  <<"/","/">>,
  <<"/","*">>,
  <<"*","/">>,
  <<"\"">>,
  <<"1">>,
  <<"i","f">>,
  <<"=">>,
  <<"\n">> }

HtmlFrags == {
  <<"<","s","c","r","i","p","t",">">>,
  <<"<","/","s","c","r","i","p","t",">">>,
  <<"<","!","-","-">>,
  <<"-","-",">">>,
  <<"\"">>,
  <<"1">>,
  <<"a","=">>,
  <<" ">> }

RECURSIVE Texts(_, _)
Texts(frags, n) ==
  IF n = 0 THEN {<<>>}
  ELSE LET shorter == Texts(frags, n - 1)
       IN  shorter \cup {t \o f : t \in shorter, f \in frags}

JsInputs == Texts(JsFrags, MaxJsFrags)

HtmlInputs == Texts(HtmlFrags, MaxHtmlFrags)

Languages == {"js", "html"}

(***************************************************************************)
(* State.                                                                  *)
(***************************************************************************)
VARIABLES
  code,             \* the text of the call in progress
  language,         \* its language
  pc,               \* "idle", "locate", "host", "embed", "js", "done" or "returned"
  tokens,           \* the token list, in the order the tokens were pushed
  processed,        \* the claim set
  pat,              \* index of the pattern being scanned
  lastIndex,        \* cursor of the matcher tokenizeHtml made for the scan
  scriptAreas,      \* the script regions found by step 1 of tokenizeHtml
  area,             \* index of the script region step 3 is at
  hostCount,        \* number of tokens pushed by step 2 of tokenizeHtml
  result,           \* the list the call returned
  compiledPatterns, \* the module-level table is built
  regexCache,       \* the module-level cache: key -> cursor of the cached matcher
  call,             \* the exported function in progress, "none" for a bare tokenize
  arg,              \* the value it was given as code or text
  options,          \* the value highlight was given as options
  output,           \* what the exported function handed back
  nested,           \* the invocation of tokenizeJavaScript step 3 has called: its locals
  tableCursor,      \* key -> cursor (lastIndex) of the regex held by the pattern table
  htmlTable         \* the table htmlPatterns the module was loaded with

vars == <<code, language, pc, tokens, processed, pat, lastIndex, scriptAreas,
          area, hostCount, result, compiledPatterns, regexCache,
          call, arg, options, output, nested, tableCursor, htmlTable>>

\* The variables of a call of an exported function.
apiVars == <<call, arg, options, output>>

\* What no step of a call touches when the nested call of step 3 is taken as
\* one step: the locals of that nested invocation, the regex objects of the
\* pattern tables, and the table itself.
sideVars == <<nested, tableCursor, htmlTable>>

\* The locals of an invocation of tokenizeJavaScript that has not started.
IdleInvocation ==
  [pc |-> "idle", code |-> <<>>, tokens |-> <<>>, processed |-> {}, pat |-> 1,
   result |-> <<>>]

CacheKeys ==
  {<<"js", JsPatterns[k].name>> : k \in 1..Len(JsPatterns)}
    \cup {<<"html", htmlTable[k].name>> : k \in 1..Len(htmlTable)}

\* getCompiledPatterns: the first call builds the table and fills the cache.
CacheAfterCompile(compiled, cache) ==
  IF compiled THEN cache
  ELSE [k \in CacheKeys |-> IF k \in DOMAIN cache THEN cache[k] ELSE 0]

\* getCachedRegex: a cached matcher is handed out with its cursor at 0, and a
\* missing one is compiled and stored.
CacheAfterGet(cache, key) ==
  [k \in DOMAIN cache \cup {key} |-> IF k = key THEN 0 ELSE cache[k]]

\* CursorAfterNull as it would be if a failed exec left the cursor where it was.
CursorAfterNullKept(cache, key) == cache

\* regex.exec(code) returned null: exec has set the matcher's lastIndex to 0.
CursorAfterNull(cache, key) == [cache EXCEPT ![key] = 0]

\* A region with content runs tokenizeJavaScript, which builds the table and
\* leaves every cached JavaScript matcher with its cursor at 0.
CacheAfterEmbed(compiled, cache, a) ==
  IF HasContent(a.content)
  THEN LET filled == CacheAfterCompile(compiled, cache)
       IN  [k \in DOMAIN filled |-> IF k[1] = "js" THEN 0 ELSE filled[k]]
  ELSE cache

InitCall ==
  /\ code = <<>>
  /\ language = "js"
  /\ pc = "idle"
  /\ tokens = <<>>
  /\ processed = {}
  /\ pat = 1
  /\ lastIndex = 0
  /\ scriptAreas = <<>>
  /\ area = 1
  /\ hostCount = 0
  /\ result = <<>>
  /\ compiledPatterns = FALSE
  /\ regexCache = [k \in {} |-> 0]
  /\ call = "none"
  /\ arg = JsUndefined
  /\ options = JsUndefined
  /\ output = JsUndefined
  /\ nested = IdleInvocation
  /\ tableCursor = [k \in CacheKeys |-> 0]

\* The module as it is shipped: htmlPatterns is the table of patterns/html.ts.
Init == htmlTable = HtmlPatterns /\ InitCall

(***************************************************************************)
(* tokenize: the entry of a call.                                          *)
(***************************************************************************)
\* tokenizeJavaScript up to its first exec.
StartJs(c) ==
  /\ code' = c
  /\ language' = "js"
  /\ pc' = "js"
  /\ tokens' = <<>>
  /\ processed' = NewProcessed(processed)
  /\ pat' = 1
  /\ lastIndex' = 0
  /\ scriptAreas' = <<>>
  /\ area' = 1
  /\ hostCount' = 0
  /\ result' = <<>>
  /\ compiledPatterns' = TRUE
  /\ regexCache' = CacheAfterGet(CacheAfterCompile(compiledPatterns, regexCache),
                                 <<"js", JsPatterns[1].name>>)

\* tokenizeHtml up to its first exec.
StartHtml(c) ==
  /\ code' = c
  /\ language' = "html"
  /\ pc' = "locate"
  /\ tokens' = <<>>
  /\ processed' = NewProcessed(processed)
  /\ pat' = 1
  /\ lastIndex' = 0
  /\ scriptAreas' = <<>>
  /\ area' = 1
  /\ hostCount' = 0
  /\ result' = <<>>
  /\ UNCHANGED <<compiledPatterns, regexCache>>

CallJs == pc = "idle" /\ (\E c \in JsInputs : StartJs(c)) /\ UNCHANGED <<apiVars, sideVars>>

CallHtml == pc = "idle" /\ (\E c \in HtmlInputs : StartHtml(c)) /\ UNCHANGED <<apiVars, sideVars>>

(***************************************************************************)
(* tokenizeJavaScript, one trip of the scan loop per step.                 *)
(***************************************************************************)
JsKey == <<"js", JsPatterns[pat].name>>

JsExec == Exec(JsPatterns[pat].name, CachedFlags, code, regexCache[JsKey])

\* The body of the while loop for the match m.
JsLoopBody(m) ==
  /\ m.found
  /\ LET c == ClaimToken(tokens, processed, MatchToken(JsPatterns[pat].type, code, m.index, m.end))
     IN  /\ tokens' = c.tokens
         /\ processed' = c.processed
  /\ regexCache' = [regexCache EXCEPT ![JsKey] = AdvanceCursor(m)]
  /\ UNCHANGED <<code, language, pc, pat, lastIndex, scriptAreas, area, hostCount,
                 result, compiledPatterns>>
  /\ UNCHANGED <<apiVars, sideVars>>

JsMatch == pc = "js" /\ JsLoopBody(JsExec)

\* exec returned null (and reset the cursor): the next pattern, or the sort and return.
JsExhausted ==
  /\ pc = "js"
  /\ ~JsExec.found
  /\ IF pat < Len(JsPatterns)
     THEN /\ pat' = pat + 1
          /\ regexCache' = CacheAfterGet(CursorAfterNull(regexCache, JsKey),
                                         <<"js", JsPatterns[pat + 1].name>>)
          /\ UNCHANGED <<pc, result>>
     ELSE /\ regexCache' = CursorAfterNull(regexCache, JsKey)
          /\ result' = SortByStart(tokens)
          /\ pc' = "done"
          /\ UNCHANGED pat
  /\ UNCHANGED <<code, language, tokens, processed, lastIndex, scriptAreas, area,
                 hostCount, compiledPatterns>>
  /\ UNCHANGED <<apiVars, sideVars>>

(***************************************************************************)
(* tokenizeHtml, one trip of a loop per step.                              *)
(***************************************************************************)
\* The body of the step 1 loop for the match m.
LocateLoopBody(m) ==
  /\ m.found
  /\ scriptAreas' = Append(scriptAreas, ScriptArea(code, m))
  /\ lastIndex' = AdvanceCursor(m)
  /\ UNCHANGED <<code, language, pc, tokens, processed, pat, area, hostCount, result,
                 compiledPatterns, regexCache>>
  /\ UNCHANGED <<apiVars, sideVars>>

LocateMatch == pc = "locate" /\ LocateLoopBody(ExecScriptContent(code, lastIndex))

LocateDone ==
  /\ pc = "locate"
  /\ ~ExecScriptContent(code, lastIndex).found
  /\ pc' = "host"
  /\ pat' = 1
  /\ lastIndex' = 0
  /\ UNCHANGED <<code, language, tokens, processed, scriptAreas, area, hostCount,
                 result, compiledPatterns, regexCache>>
  /\ UNCHANGED <<apiVars, sideVars>>

HostExec == Exec(htmlTable[pat].name, htmlTable[pat].flags, code, lastIndex)

\* The body of the step 2 while loop for the match m.
HostLoopBody(m) ==
  /\ m.found
  /\ LET c == HostClaim(tokens, processed, scriptAreas, htmlTable[pat].type, code, m)
     IN  /\ tokens' = c.tokens
         /\ processed' = c.processed
  /\ lastIndex' = HostCursor(scriptAreas, m)
  /\ UNCHANGED <<code, language, pc, pat, scriptAreas, area, hostCount, result,
                 compiledPatterns, regexCache>>
  /\ UNCHANGED <<apiVars, sideVars>>

HostMatch == pc = "host" /\ HostLoopBody(HostExec)

\* exec returned null: the next host pattern; after the last one, step 3, or
\* with no script region the sort and return.
HostExhausted ==
  /\ pc = "host"
  /\ ~HostExec.found
  /\ IF pat < Len(htmlTable)
     THEN /\ pat' = pat + 1
          /\ lastIndex' = 0
          /\ UNCHANGED <<pc, area, hostCount, result>>
     ELSE /\ hostCount' = Len(tokens)
          /\ area' = 1
          /\ lastIndex' = 0
          /\ IF scriptAreas = <<>>
             THEN /\ result' = SortByStart(tokens)
                  /\ pc' = "done"
             ELSE /\ pc' = "embed"
                  /\ UNCHANGED result
          /\ UNCHANGED pat
  /\ UNCHANGED <<code, language, tokens, processed, scriptAreas, compiledPatterns,
                 regexCache>>
  /\ UNCHANGED <<apiVars, sideVars>>

\* Step 3 for one script region; after the last one the sort and return.
\* The rest of step 3 for the script region a, merged being the tokens and
\* claim set after its tokens were added.
EmbedLoopBody(a, merged) ==
  /\ tokens' = merged.tokens
  /\ processed' = merged.processed
  /\ regexCache' = CacheAfterEmbed(compiledPatterns, regexCache, a)
  /\ compiledPatterns' = (compiledPatterns \/ HasContent(a.content))
  /\ IF area < Len(scriptAreas)
     THEN /\ area' = area + 1
          /\ UNCHANGED <<pc, result>>
     ELSE /\ result' = SortByStart(merged.tokens)
          /\ pc' = "done"
          /\ UNCHANGED area
  /\ UNCHANGED <<code, language, pat, lastIndex, scriptAreas, hostCount>>
  /\ UNCHANGED <<apiVars, sideVars>>

Embed ==
  /\ pc = "embed"
  /\ EmbedLoopBody(scriptAreas[area], EmbedArea(tokens, processed, scriptAreas[area]))

\* Everything a call made is dropped, and only the module-level table and
\* cache stay.
Reset ==
  /\ code' = <<>>
  /\ language' = "js"
  /\ pc' = "idle"
  /\ tokens' = <<>>
  /\ processed' = {}
  /\ pat' = 1
  /\ lastIndex' = 0
  /\ scriptAreas' = <<>>
  /\ area' = 1
  /\ hostCount' = 0
  /\ result' = <<>>
  /\ call' = "none"
  /\ arg' = JsUndefined
  /\ options' = JsUndefined
  /\ output' = JsUndefined
  /\ UNCHANGED <<compiledPatterns, regexCache>>
  /\ UNCHANGED sideVars

\* The caller of a bare tokenize has taken the returned list.
Dispose == pc = "done" /\ call = "none" /\ Reset

Next ==
  \/ CallJs
  \/ CallHtml
  \/ JsMatch
  \/ JsExhausted
  \/ LocateMatch
  \/ LocateDone
  \/ HostMatch
  \/ HostExhausted
  \/ Embed
  \/ Dispose

Spec == Init /\ [][Next]_vars

(***************************************************************************)
(* Calls in sequence: a further call starts while the variables still hold *)
(* what the call before left behind.                                       *)
(***************************************************************************)
JsRepeatInputs == {
  <<>>,
  <<"1">>,
  <<"\"", "1", "/", "/", "\"">>,
  <<"i", "f", "=", "1">>,
  <<"/", "/", "1", "\n", "1">>,
  <<"/", "/", "a", LineSeparator, " ", "1">> }

HtmlRepeatInputs == {
  <<>>,
  <<"<","b"," ","a",VerticalTab,"=","1",">">>,
  <<"<","S","C","R","I","P","T",">", "U+00A0", "<","/","S","c","r","i","p","t",">">>,
  <<"\"", "1", "\"">>,
  <<"<","s","c","r","i","p","t",">", "1", "<","/","s","c","r","i","p","t",">">>,
  <<"<","s","c","r","i","p","t",">", "<","!","-","-", "<","/","s","c","r","i","p","t",">", "-","-",">">> }

RepeatJs == pc = "done" /\ (\E c \in JsRepeatInputs : StartJs(c)) /\ UNCHANGED <<apiVars, sideVars>>

RepeatHtml == pc = "done" /\ (\E c \in HtmlRepeatInputs : StartHtml(c)) /\ UNCHANGED <<apiVars, sideVars>>

NextRepeat ==
  \/ Next
  \/ RepeatJs
  \/ RepeatHtml

SpecRepeat == Init /\ [][NextRepeat]_vars

(***************************************************************************)
(* The exported functions: highlight, escapeHtml and detectLanguage.       *)
(***************************************************************************)
ApiFrags == {
  <<"<","s","c","r","i","p","t",">">>,
  <<"<","/","s","c","r","i","p","t",">">>,
  <<"<","b",">">>,
  <<"\"">>,
  <<"'">>,
  <<"&">>,
  <<"1">>,
  <<"a">>,
  <<" ">> }

\* Texts with white space and line terminators beyond ASCII, and with
\* delimiters in upper case.
HighlightExtraTexts == {
  <<"/", "/", "a", LineSeparator, " ", "1">>,
  <<"<","b"," ","a",VerticalTab,"=","1",">">>,
  <<"<","S","C","R","I","P","T",">", "U+00A0", "<","/","S","c","r","i","p","t",">">> }

HighlightTexts == Texts(ApiFrags, MaxApiFrags) \cup HighlightExtraTexts

\* Values that are not strings, as the tests pass them for code.
NonStringValues == {
  JsNull,
  JsUndefined,
  Num(42),
  Num(0),
  Bool(TRUE),
  Bool(FALSE),
  PlainObject,
  BareObject,
  Arr(<<>>),
  Arr(<<Num(1), Str(<<"<">>)>>),
  Arr(<<Sym(<<"a">>)>>),
  Arr(<<Num(1), Arr(<<BareObject>>)>>),
  Sym(<<"t","e","s","t">>),
  Fn(<<"(",")"," ","=",">"," ","{","}">>) }

CodeValues == {Str(t) : t \in HighlightTexts} \cup NonStringValues

OptionValues == {
  JsUndefined,
  JsNull,
  Str(<<"i","n","v","a","l","i","d">>),
  Num(42),
  OptionsObject(JsUndefined),
  OptionsObject(Str(<<"j","s">>)),
  OptionsObject(Str(<<"h","t","m","l">>)),
  OptionsObject(Str(<<"p","y","t","h","o","n">>)),
  OptionsObject(Str(<<"J","S">>)),
  OptionsObject(Str(<<>>)),
  OptionsObject(JsNull),
  OptionsThrowing }

EscapeFrags == {
  <<"<">>,
  <<">">>,
  <<"&">>,
  <<"\"">>,
  <<"'">>,
  <<"a">>,
  <<"l","t",";">>,
  <<"a","m","p",";">> }

EscapeInputs == {Str(t) : t \in Texts(EscapeFrags, MaxEscapeFrags)} \cup NonStringValues

DetectFrags == {
  <<"<">>,
  <<"/">>,
  <<"a">>,
  <<"Z">>,
  <<"!">>,
  <<"?">>,
  <<"1">>,
  <<" ">>,
  <<"\n">> }

DetectExtraInputs == {
  <<VerticalTab>>,
  <<"U+00A0", "U+1680", ParagraphSeparator>>,
  <<"<","!","D","O","C","T","Y","P","E"," ","h","t","m","l",">">>,
  <<"a", "<","!","D","o","c","T","y","p","e">> }

DetectInputs == Texts(DetectFrags, MaxDetectFrags) \cup DetectExtraInputs

\* A language handed back as a value.
Lang(l) == [kind |-> "language", val |-> l]

\* highlight(v, o) up to the first exec of the tokenizer, or to its return
\* when it does not tokenize; e is the entry of the call.
HighlightStart(v, o, e) ==
  /\ call' = "highlight"
  /\ arg' = v
  /\ options' = o
  /\ IF e.outcome = "tokenize"
     THEN /\ IF e.language = "html" THEN StartHtml(e.code.val) ELSE StartJs(e.code.val)
          /\ output' = JsUndefined
     ELSE /\ output' = EarlyOutcome(e)
          /\ pc' = "returned"
          /\ UNCHANGED <<code, language, tokens, processed, pat, lastIndex, scriptAreas,
                         area, hostCount, result, compiledPatterns, regexCache>>
  /\ UNCHANGED sideVars

HighlightCall ==
  /\ pc = "idle"
  /\ \E v \in CodeValues, o \in OptionValues : HighlightStart(v, o, HighlightEntry(v, o))

\* tokenize has returned to highlight: tokensToHtml and the return.
Render ==
  /\ pc = "done"
  /\ call = "highlight"
  /\ output' = Str(tokensToHtml(code, result))
  /\ pc' = "returned"
  /\ UNCHANGED <<code, language, tokens, processed, pat, lastIndex, scriptAreas, area,
                 hostCount, result, compiledPatterns, regexCache, call, arg, options>>
  /\ UNCHANGED sideVars

\* A call of an exported function that does not tokenize.
Apply(name, v, out) ==
  /\ call' = name
  /\ arg' = v
  /\ output' = out
  /\ pc' = "returned"
  /\ UNCHANGED <<code, language, tokens, processed, pat, lastIndex, scriptAreas, area,
                 hostCount, result, compiledPatterns, regexCache, options>>
  /\ UNCHANGED sideVars

EscapeCall == pc = "idle" /\ \E v \in EscapeInputs : Apply("escapeHtml", v, escapeHtml(v))

DetectCall ==
  pc = "idle" /\ \E c \in DetectInputs : Apply("detectLanguage", Str(c), Lang(detectLanguage(c)))

\* The caller has taken what the exported function handed back.
Return == pc = "returned" /\ Reset

NextApi ==
  \/ HighlightCall
  \/ EscapeCall
  \/ DetectCall
  \/ JsMatch
  \/ JsExhausted
  \/ LocateMatch
  \/ LocateDone
  \/ HostMatch
  \/ HostExhausted
  \/ Embed
  \/ Render
  \/ Return

SpecApi == Init /\ [][NextApi]_vars

\* A call of the named exported function has returned.
Returned(name) == pc = "returned" /\ call = name

(***************************************************************************)
(* Two invocations that are live at once.  Every tokenizer is synchronous  *)
(* and runs to completion, so a second invocation takes steps while a      *)
(* first one is unfinished only when the first one called it: step 3 of    *)
(* tokenizeHtml stands at `tokenizeJavaScript(content)` while the nested   *)
(* invocation makes the trips of its loops.  The token list, the claim set *)
(* and the pattern index are locals of each invocation; the matchers of    *)
(* the nested invocation come from the module-level regexCache, which      *)
(* calls before and after it use as well.                                  *)
(***************************************************************************)
NestedJsInputs == {
  <<"1">>,
  <<"=", "1">>,
  <<"i", "f", " ", "a">> }

NestedHtmlInputs == {
  <<"a">>,
  <<"<","s","c","r","i","p","t",">", " ", "<","/","s","c","r","i","p","t",">">>,
  <<"<","s","c","r","i","p","t",">", "1", "<","/","s","c","r","i","p","t",">">>,
  <<"<","b",">", "<","s","c","r","i","p","t",">", "i","f", "<","/","s","c","r","i","p","t",">">>,
  <<"<","s","c","r","i","p","t",">", "=","1", "<","/","s","c","r","i","p","t",">",
    "<","s","c","r","i","p","t",">", "1", "<","/","s","c","r","i","p","t",">">>,
  <<"<","s","c","r","i","p","t",">", "<","/","s","c","r","i","p","t",">",
    "<","s","c","r","i","p","t",">", "/","/","<", "<","/","s","c","r","i","p","t",">">> }

NestedCallJs ==
  pc = "idle" /\ (\E c \in NestedJsInputs : StartJs(c)) /\ UNCHANGED <<apiVars, sideVars>>

NestedCallHtml ==
  pc = "idle" /\ (\E c \in NestedHtmlInputs : StartHtml(c)) /\ UNCHANGED <<apiVars, sideVars>>

NestedKey == <<"js", JsPatterns[nested.pat].name>>

NestedExec == Exec(JsPatterns[nested.pat].name, CachedFlags, nested.code, regexCache[NestedKey])

\* Step 3 reaches a script region with content and calls tokenizeJavaScript,
\* which runs up to its first exec; the caller's locals stay.
EmbedEnter ==
  /\ pc = "embed"
  /\ nested.pc = "idle"
  /\ HasContent(scriptAreas[area].content)
  /\ nested' = [pc |-> "js", code |-> scriptAreas[area].content, tokens |-> <<>>,
                processed |-> NewProcessed(processed), pat |-> 1, result |-> <<>>]
  /\ compiledPatterns' = TRUE
  /\ regexCache' = CacheAfterGet(CacheAfterCompile(compiledPatterns, regexCache),
                                 <<"js", JsPatterns[1].name>>)
  /\ UNCHANGED <<code, language, pc, tokens, processed, pat, lastIndex, scriptAreas,
                 area, hostCount, result, tableCursor, htmlTable>>
  /\ UNCHANGED apiVars

\* Step 3 passes a script region whose content is blank.
EmbedSkip ==
  /\ pc = "embed"
  /\ nested.pc = "idle"
  /\ ~HasContent(scriptAreas[area].content)
  /\ EmbedLoopBody(scriptAreas[area], [tokens |-> tokens, processed |-> processed])

\* One trip of the nested while loop: exec found a match.
NestedMatch ==
  /\ nested.pc = "js"
  /\ NestedExec.found
  /\ LET c == ClaimToken(nested.tokens, nested.processed,
                         MatchToken(JsPatterns[nested.pat].type, nested.code,
                                    NestedExec.index, NestedExec.end))
     IN  nested' = [nested EXCEPT !.tokens = c.tokens, !.processed = c.processed]
  /\ regexCache' = [regexCache EXCEPT ![NestedKey] = AdvanceCursor(NestedExec)]
  /\ UNCHANGED <<code, language, pc, tokens, processed, pat, lastIndex, scriptAreas,
                 area, hostCount, result, compiledPatterns, tableCursor, htmlTable>>
  /\ UNCHANGED apiVars

\* The nested exec returned null (and reset the cursor): the next pattern, or
\* the sort and return.
NestedExhausted ==
  /\ nested.pc = "js"
  /\ ~NestedExec.found
  /\ IF nested.pat < Len(JsPatterns)
     THEN /\ nested' = [nested EXCEPT !.pat = nested.pat + 1]
          /\ regexCache' = CacheAfterGet(CursorAfterNull(regexCache, NestedKey),
                                         <<"js", JsPatterns[nested.pat + 1].name>>)
     ELSE /\ nested' = [nested EXCEPT !.pc = "done", !.result = SortByStart(nested.tokens)]
          /\ regexCache' = CursorAfterNull(regexCache, NestedKey)
  /\ UNCHANGED <<code, language, pc, tokens, processed, pat, lastIndex, scriptAreas,
                 area, hostCount, result, compiledPatterns, tableCursor, htmlTable>>
  /\ UNCHANGED apiVars

\* The nested call has returned jsTokens: step 3 shifts and adds them, and
\* goes to the next script region or to the sort and return.
EmbedReturn ==
  /\ pc = "embed"
  /\ nested.pc = "done"
  /\ LET merged == AddJsTokens(tokens, processed, nested.result,
                               scriptAreas[area].openTagEnd)
     IN  /\ tokens' = merged.tokens
         /\ processed' = merged.processed
         /\ IF area < Len(scriptAreas)
            THEN /\ area' = area + 1
                 /\ UNCHANGED <<pc, result>>
            ELSE /\ result' = SortByStart(merged.tokens)
                 /\ pc' = "done"
                 /\ UNCHANGED area
  /\ nested' = IdleInvocation
  /\ UNCHANGED <<code, language, pat, lastIndex, scriptAreas, hostCount,
                 compiledPatterns, regexCache, tableCursor, htmlTable>>
  /\ UNCHANGED apiVars

NextNested ==
  \/ NestedCallJs
  \/ NestedCallHtml
  \/ JsMatch
  \/ JsExhausted
  \/ LocateMatch
  \/ LocateDone
  \/ HostMatch
  \/ HostExhausted
  \/ EmbedEnter
  \/ EmbedSkip
  \/ NestedMatch
  \/ NestedExhausted
  \/ EmbedReturn
  \/ Dispose

SpecNested == Init /\ [][NextNested]_vars

(***************************************************************************)
(* The scan loops over any pattern table: the module is loaded with the    *)
(* shipped table htmlPatterns, or with a table that also holds a pattern   *)
(* whose matches can be empty.                                             *)
(***************************************************************************)
PatternTables == {
  HtmlPatterns,
  Append(HtmlPatterns, LettersOptional),
  <<LettersOptional>> \o HtmlPatterns }

InitTables == htmlTable \in PatternTables /\ InitCall

TableJsInputs == {
  <<>>,
  <<"i", "f", "=", "1">>,
  <<"/", "/", "1", "\n", "1">> }

TableHtmlInputs == {
  <<>>,
  <<"a", " ", "1">>,
  <<"<","b",">", "a">>,
  <<"<","s","c","r","i","p","t",">", "<","/","s","c","r","i","p","t",">">>,
  <<"<","s","c","r","i","p","t",">", "1", "<","/","s","c","r","i","p","t",">", "a">>,
  <<"<","S","c","r","i","p","t"," ","a","=","1",">", "<","/","s","c","r","i","p","t",">",
    "<","/","S","C","R","I","P","T",">">> }

TableCallJs ==
  pc = "idle" /\ (\E c \in TableJsInputs : StartJs(c)) /\ UNCHANGED <<apiVars, sideVars>>

TableCallHtml ==
  pc = "idle" /\ (\E c \in TableHtmlInputs : StartHtml(c)) /\ UNCHANGED <<apiVars, sideVars>>

NextTables ==
  \/ TableCallJs
  \/ TableCallHtml
  \/ JsMatch
  \/ JsExhausted
  \/ LocateMatch
  \/ LocateDone
  \/ HostMatch
  \/ HostExhausted
  \/ Embed
  \/ Dispose

SpecTables == InitTables /\ [][NextTables]_vars

(***************************************************************************)
(* The size-optimized highlight (src/unnamed/part_000, 198-447): no regex  *)
(* cache; tokenizeCode and tokenizeHtml scan with the regex objects of the *)
(* pattern tables themselves, so the cursor of a scan is the lastIndex of  *)
(* a table regex.  Its definitions carry the prefix Compact where the name *)
(* of the source is taken by the current highlight.ts.                     *)
(***************************************************************************)
\* text.indexOf(needle) for a text that holds the needle.
IndexOf(text, needle) == Find(text, 0, needle)

\* contentStart = matchStart + fullMatch.indexOf(content || '')
ContentStart(src, m) ==
  m.index + IndexOf(Slice(src, m.index, m.end),
                    Slice(src, m.group.groupStart, m.group.groupEnd))

\* The record pushed on scriptAreas for a match of scriptRegex.
CompactArea(src, m) ==
  [start |-> m.index,
   end |-> m.end,
   content |-> Slice(src, m.group.groupStart, m.group.groupEnd),
   contentStart |-> ContentStart(src, m)]

\* The loop over the matches of scriptRegex, from the cursor lastIdx on.
RECURSIVE CompactLocate(_, _, _)
CompactLocateStep(src, m, areas) ==
  IF ~m.found THEN areas
  ELSE CompactLocate(src, m.end, Append(areas, CompactArea(src, m)))

CompactLocate(src, lastIdx, areas) ==
  CompactLocateStep(src, ExecScriptContent(src, lastIdx), areas)

\* inScriptContent: the span [s, e) lies between contentStart and
\* contentStart + content.length of some script area.
CompactInScriptContent(areas, s, e) ==
  \E k \in 1..Len(areas) :
    s >= areas[k].contentStart /\ e <= areas[k].contentStart + Len(areas[k].content)

\* One trip of the host loop on the match m of a pattern of the given type.
CompactHostClaim(toks, proc, areas, type, src, m) ==
  IF CompactInScriptContent(areas, m.index, m.end)
  THEN [tokens |-> toks, processed |-> proc]
  ELSE ClaimToken(toks, proc, MatchToken(type, src, m.index, m.end))

\* tokenizeCode(src, 'js') as a function of its argument: the pattern loop
\* from pattern p with the cursor of its table regex at lastIdx.
RECURSIVE CompactScan(_, _, _, _, _)
CompactScanStep(src, p, m, toks, proc) ==
  IF ~m.found
  THEN IF p = Len(JsPatterns) THEN toks ELSE CompactScan(src, p + 1, 0, toks, proc)
  ELSE LET c == ClaimToken(toks, proc, MatchToken(JsPatterns[p].type, src, m.index, m.end))
       IN  CompactScan(src, p, m.end, c.tokens, c.processed)

CompactScan(src, p, lastIdx, toks, proc) ==
  CompactScanStep(src, p, Exec(JsPatterns[p].name, JsPatterns[p].flags, src, lastIdx),
                  toks, proc)

tokenizeCode(src) == SortByStart(CompactScan(src, 1, 0, <<>>, {}))

\* The tokens of tokenizeCode(content, 'js') shifted by contentStart and
\* added under the claim check, for a script area with content.
CompactEmbedArea(toks, proc, a) ==
  IF HasContent(a.content)
  THEN AddJsTokens(toks, proc, tokenizeCode(a.content), a.contentStart)
  ELSE [tokens |-> toks, processed |-> proc]

CompactJsInputs == {
  <<>>,
  <<"1">>,
  <<"\"", "1", "/", "/", "\"">>,
  <<"/", "*", "1", "*", "/", "=", "=">>,
  <<"i", "f", "=", "1">>,
  <<"/", "/", "1", "\n", "1">> }

CompactHtmlInputs == {
  <<>>,
  <<"<","b",">", "1">>,
  <<"<","b"," ","a","=","\"","1","\"",">", "<","!","-","-","1","-","-",">">>,
  <<"<","s","c","r","i","p","t",">", "<","/","s","c","r","i","p","t",">">>,
  <<"<","s","c","r","i","p","t",">", "1", "<","/","s","c","r","i","p","t",">">>,
  <<"<","s","c","r","i","p","t",">", "i", "f", "<","/","s","c","r","i","p","t",">">>,
  <<"<","s","c","r","i","p","t"," ","a","=","1",">", "1", "<","/","s","c","r","i","p","t",">">>,
  <<"1", "<","s","c","r","i","p","t",">", "=", "<","/","s","c","r","i","p","t",">",
    "<","s","c","r","i","p","t",">", "c", "<","/","s","c","r","i","p","t",">">> }

CompactJsKey == <<"js", JsPatterns[pat].name>>

CompactHostKey == <<"html", HtmlPatterns[pat].name>>

\* The locals of a call of the size-optimized tokenizer at its entry.
CompactEntry(c, lang, areas) ==
  /\ code' = c
  /\ language' = lang
  /\ tokens' = <<>>
  /\ processed' = {}
  /\ pat' = 1
  /\ scriptAreas' = areas
  /\ area' = 1
  /\ result' = <<>>
  /\ UNCHANGED <<lastIndex, hostCount, compiledPatterns, regexCache, nested, htmlTable>>
  /\ UNCHANGED apiVars

\* tokenizeCode(c, 'js') up to its first exec: pattern.regex.lastIndex = 0.
CompactStartJs(c) ==
  /\ CompactEntry(c, "js", <<>>)
  /\ pc' = "compact-js"
  /\ tableCursor' = [tableCursor EXCEPT ![<<"js", JsPatterns[1].name>>] = 0]

\* tokenizeHtml(c) up to the first exec of a host pattern.
CompactStartHtml(c) ==
  /\ CompactEntry(c, "html", CompactLocate(c, 0, <<>>))
  /\ pc' = "compact-host"
  /\ tableCursor' = [tableCursor EXCEPT ![<<"html", HtmlPatterns[1].name>>] = 0]

CompactCallJs == pc = "idle" /\ \E c \in CompactJsInputs : CompactStartJs(c)

CompactCallHtml == pc = "idle" /\ \E c \in CompactHtmlInputs : CompactStartHtml(c)

CompactJsExec ==
  Exec(JsPatterns[pat].name, JsPatterns[pat].flags, code, tableCursor[CompactJsKey])

\* One trip of the while loop of tokenizeCode: exec has left the cursor of
\* the table regex at the end of the match.
CompactJsMatch ==
  /\ pc = "compact-js"
  /\ CompactJsExec.found
  /\ LET m == CompactJsExec
         c == ClaimToken(tokens, processed,
                         MatchToken(JsPatterns[pat].type, code, m.index, m.end))
     IN  /\ tokens' = c.tokens
         /\ processed' = c.processed
         /\ tableCursor' = [tableCursor EXCEPT ![CompactJsKey] = m.end]
  /\ UNCHANGED <<code, language, pc, pat, lastIndex, scriptAreas, area, hostCount,
                 result, compiledPatterns, regexCache, nested, htmlTable>>
  /\ UNCHANGED apiVars

\* exec returned null (and reset the cursor): the next pattern, or the sort and return.
CompactJsExhausted ==
  /\ pc = "compact-js"
  /\ ~CompactJsExec.found
  /\ IF pat < Len(JsPatterns)
     THEN /\ pat' = pat + 1
          /\ tableCursor' = [tableCursor EXCEPT ![CompactJsKey] = 0,
                                                ![<<"js", JsPatterns[pat + 1].name>>] = 0]
          /\ UNCHANGED <<pc, result>>
     ELSE /\ tableCursor' = [tableCursor EXCEPT ![CompactJsKey] = 0]
          /\ result' = SortByStart(tokens)
          /\ pc' = "done"
          /\ UNCHANGED pat
  /\ UNCHANGED <<code, language, tokens, processed, lastIndex, scriptAreas, area,
                 hostCount, compiledPatterns, regexCache, nested, htmlTable>>
  /\ UNCHANGED apiVars

CompactHostExec ==
  Exec(HtmlPatterns[pat].name, HtmlPatterns[pat].flags, code, tableCursor[CompactHostKey])

\* One trip of the while loop of a host pattern.
CompactHostMatch ==
  /\ pc = "compact-host"
  /\ CompactHostExec.found
  /\ LET m == CompactHostExec
         c == CompactHostClaim(tokens, processed, scriptAreas, HtmlPatterns[pat].type,
                               code, m)
     IN  /\ tokens' = c.tokens
         /\ processed' = c.processed
         /\ tableCursor' = [tableCursor EXCEPT ![CompactHostKey] = m.end]
  /\ UNCHANGED <<code, language, pc, pat, lastIndex, scriptAreas, area, hostCount,
                 result, compiledPatterns, regexCache, nested, htmlTable>>
  /\ UNCHANGED apiVars

\* exec returned null: the next host pattern; after the last one the script
\* areas, or with none the sort and return.
CompactHostExhausted ==
  /\ pc = "compact-host"
  /\ ~CompactHostExec.found
  /\ IF pat < Len(HtmlPatterns)
     THEN /\ pat' = pat + 1
          /\ tableCursor' = [tableCursor EXCEPT ![CompactHostKey] = 0,
                                                ![<<"html", HtmlPatterns[pat + 1].name>>] = 0]
          /\ UNCHANGED <<pc, result>>
     ELSE /\ tableCursor' = [tableCursor EXCEPT ![CompactHostKey] = 0]
          /\ IF scriptAreas = <<>>
             THEN /\ result' = SortByStart(tokens)
                  /\ pc' = "done"
             ELSE /\ pc' = "compact-embed"
                  /\ UNCHANGED result
          /\ UNCHANGED pat
  /\ UNCHANGED <<code, language, tokens, processed, lastIndex, scriptAreas, area,
                 hostCount, compiledPatterns, regexCache, nested, htmlTable>>
  /\ UNCHANGED apiVars

\* The JavaScript of one script area: the nested tokenizeCode runs to its
\* return, which leaves every table cursor it moved at 0 again.
CompactEmbed ==
  /\ pc = "compact-embed"
  /\ LET merged == CompactEmbedArea(tokens, processed, scriptAreas[area])
     IN  /\ tokens' = merged.tokens
         /\ processed' = merged.processed
         /\ IF area < Len(scriptAreas)
            THEN /\ area' = area + 1
                 /\ UNCHANGED <<pc, result>>
            ELSE /\ result' = SortByStart(merged.tokens)
                 /\ pc' = "done"
                 /\ UNCHANGED area
  /\ UNCHANGED <<code, language, pat, lastIndex, scriptAreas, hostCount,
                 compiledPatterns, regexCache, tableCursor, nested, htmlTable>>
  /\ UNCHANGED apiVars

NextCompact ==
  \/ CompactCallJs
  \/ CompactCallHtml
  \/ CompactJsMatch
  \/ CompactJsExhausted
  \/ CompactHostMatch
  \/ CompactHostExhausted
  \/ CompactEmbed
  \/ Dispose

SpecCompact == Init /\ [][NextCompact]_vars

(***************************************************************************)
(* Properties.                                                             *)
(***************************************************************************)
Done == pc = "done"

\* The offsets a token covers.
TokenSpan(t) == t.start..(t.end - 1)

\* The tokens step 3 of tokenizeHtml pushed (translated JavaScript tokens).
EmbeddedTokens ==
  IF language = "html" THEN {tokens[k] : k \in (hostCount + 1)..Len(tokens)} ELSE {}

\* The tokens step 2 of tokenizeHtml pushed (host tokens).
HostTokens ==
  IF language = "html" THEN {tokens[k] : k \in 1..hostCount} ELSE {}

\* C1: Disjointness. In the list a call returns, for both grammars and any
\* number of script regions, any two distinct tokens cover ranges
\* [start, end) that do not intersect.
C1_Disjointness ==
  Done => \A i, j \in 1..Len(result) :
            i # j => TokenSpan(result[i]) \cap TokenSpan(result[j]) = {}

\* A finished HTML call with a script region, host tokens and translated tokens.
C1_Witness ==
  /\ Done
  /\ language = "html"
  /\ scriptAreas # <<>>
  /\ hostCount >= 1
  /\ Len(tokens) > hostCount
  /\ Len(result) >= 3

\* C2: Order. The returned list is ascending by start, and each token ends
\* at or before the start of the next one, so no two tokens share a start.
C2_Order ==
  Done => \A i \in 1..(Len(result) - 1) :
            /\ result[i].start < result[i + 1].start
            /\ result[i].end <= result[i + 1].start

\* A finished call whose tokens were pushed in another order than the returned one.
C2_Witness ==
  /\ Done
  /\ Len(result) >= 2
  /\ result # tokens

\* C3: Token bounds. Every returned token, host or translated, has
\* 0 <= start < end <= length of the source: no token is empty and the
\* spans all lie in [0, length).
C3_TokenBounds ==
  Done => \A i \in 1..Len(result) :
            /\ 0 <= result[i].start
            /\ result[i].start < result[i].end
            /\ result[i].end <= Len(code)

\* C4: Token text. The value of every returned token is the slice
\* [start, end) of the full input, also for JavaScript tokens of a script
\* region after their offsets were shifted.
C4_TokenText ==
  Done => \A i \in 1..Len(result) :
            result[i].value = Slice(code, result[i].start, result[i].end)

\* A finished HTML call that returned a translated token of two or more characters.
C4_Witness ==
  /\ Done
  /\ \E t \in EmbeddedTokens :
       /\ Len(t.value) >= 2
       /\ \E i \in 1..Len(result) : result[i] = t

\* The matches the scan loop of one pattern examines on src, cursor at lastIdx.
RECURSIVE ScanMatches(_, _, _, _)
ScanMatches(name, flags, src, lastIdx) ==
  LET m == Exec(name, flags, src, lastIdx)
  IN  IF ~m.found THEN {}
      ELSE {[index |-> m.index, end |-> m.end]}
             \cup ScanMatches(name, flags, src, AdvanceCursor(m))

JsMatches(p) == ScanMatches(JsPatterns[p].name, CachedFlags, code, 0)

HostMatches(p) == ScanMatches(HtmlPatterns[p].name, HtmlPatterns[p].flags, code, 0)

MatchSpan(m) == m.index..(m.end - 1)

\* The returned list holds a token of the given type spanning exactly the match m.
Emitted(type, m) ==
  \E i \in 1..Len(result) :
    result[i].type = type /\ result[i].start = m.index /\ result[i].end = m.end

\* C5 as claimed: whenever a match of an earlier JavaScript pattern and a
\* match of a later one overlap, the later match is not emitted.
C5_LaterNeverEmitted ==
  (Done /\ language = "js") =>
    \A p1, p2 \in 1..Len(JsPatterns) :
      p1 < p2 =>
        \A m1 \in JsMatches(p1), m2 \in JsMatches(p2) :
          MatchSpan(m1) \cap MatchSpan(m2) # {} => ~Emitted(JsPatterns[p2].type, m2)

\* C5: Priority. A match of a JavaScript pattern is emitted exactly when it
\* overlaps no emitted match of an earlier pattern; so of two overlapping
\* matches of an earlier and a later pattern the later one is discarded
\* whenever the earlier one was emitted.
C5_Priority ==
  (Done /\ language = "js") =>
    \A p2 \in 1..Len(JsPatterns) :
      \A m2 \in JsMatches(p2) :
        Emitted(JsPatterns[p2].type, m2)
          <=> ~(\E p1 \in 1..(p2 - 1) :
                  \E m1 \in JsMatches(p1) :
                    /\ Emitted(JsPatterns[p1].type, m1)
                    /\ MatchSpan(m1) \cap MatchSpan(m2) # {})

\* A finished JavaScript call in which an emitted match of an earlier pattern
\* overlaps a match of a later pattern.
C5_Witness ==
  /\ Done
  /\ language = "js"
  /\ \E p1, p2 \in 1..Len(JsPatterns) :
       /\ p1 < p2
       /\ \E m1 \in JsMatches(p1), m2 \in JsMatches(p2) :
            /\ Emitted(JsPatterns[p1].type, m1)
            /\ MatchSpan(m1) \cap MatchSpan(m2) # {}

\* The step that examines the match m of a pattern of the given type: with
\* the match eligible and its span free it pushes one token spanning exactly
\* the match and claims the span, otherwise it changes neither list nor set.
ExaminedWhole(m, type, eligible) ==
  IF eligible /\ (MatchSpan(m) \cap processed = {})
  THEN /\ tokens' = Append(tokens, [type |-> type, value |-> Slice(code, m.index, m.end),
                                    start |-> m.index, end |-> m.end])
       /\ processed' = processed \cup MatchSpan(m)
  ELSE /\ tokens' = tokens
       /\ processed' = processed

\* C6: No partial tokens. A match [s, e) is emitted, as one token spanning
\* exactly [s, e), if and only if no offset of it is claimed when it is
\* examined (and, in tokenizeHtml, it does not lie in the inner-text bounds
\* of a script region); otherwise it is discarded whole and the claim set
\* stays as it was.
C6_NoPartialTokens ==
  [][ /\ (pc = "js" /\ JsExec.found)
         => ExaminedWhole(JsExec, JsPatterns[pat].type, TRUE)
      /\ (pc = "host" /\ HostExec.found)
         => ExaminedWhole(HostExec, HtmlPatterns[pat].type,
              ~(\E k \in 1..Len(scriptAreas) :
                  /\ HostExec.index >= scriptAreas[k].openTagEnd
                  /\ HostExec.end <= scriptAreas[k].closeTagStart)) ]_vars

\* A finished JavaScript call in which a match was discarded although only a
\* part of its span was claimed: the rest of the span is in no token.
C6_Witness ==
  /\ Done
  /\ language = "js"
  /\ \E p \in 1..Len(JsPatterns) :
       \E m \in JsMatches(p) :
         /\ ~Emitted(JsPatterns[p].type, m)
         /\ MatchSpan(m) \cap processed # {}
         /\ MatchSpan(m) \ processed # {}

\* C7: Idempotence. Whatever calls came before, on whatever inputs and
\* languages, a call returns the list that tokenize gives as a function of
\* its two arguments alone, so every call on the same input returns the same list.
C7_Idempotence == Done => result = tokenize(code, language)

\* A finished HTML call without a script region that found the cache built:
\* an earlier call on another input has run.
C7_Witness ==
  /\ Done
  /\ language = "html"
  /\ scriptAreas = <<>>
  /\ compiledPatterns
  /\ result # <<>>

\* The offsets of capture group 1 of the script region k, from the locator regex.
InnerBounds(k) == MatchScriptTagContent(code, scriptAreas[k].start)

\* The offsets host tokens cover.
HostClaimed == UNION {TokenSpan(t) : t \in HostTokens}

\* The token t of the inner text, shifted by offset, is in the returned list.
ReturnedShifted(t, offset) ==
  \E i \in 1..Len(result) :
    /\ result[i].type = t.type
    /\ result[i].value = t.value
    /\ result[i].start = t.start + offset
    /\ result[i].end = t.end + offset

\* C8 as claimed: with one script region, every token of the inner text
\* tokenized alone is in the list tokenizeHtml returns, shifted by the
\* offset of the inner text.
C8_EveryInnerTokenReturned ==
  (Done /\ language = "html" /\ Len(scriptAreas) = 1) =>
    LET g == InnerBounds(1)
        js == tokenizeJavaScript(Slice(code, g.groupStart, g.groupEnd))
    IN  \A n \in 1..Len(js) : ReturnedShifted(js[n], g.groupStart)

\* C8: Embedding round-trip. With one script region whose inner text starts
\* at offset k, a token of the inner text tokenized alone is in the list
\* tokenizeHtml returns, with the same type and value and start and end
\* increased by k, exactly when none of its shifted offsets is covered by a host token.
C8_EmbeddingRoundTrip ==
  (Done /\ language = "html" /\ Len(scriptAreas) = 1) =>
    LET g == InnerBounds(1)
        js == tokenizeJavaScript(Slice(code, g.groupStart, g.groupEnd))
    IN  \A n \in 1..Len(js) :
          ReturnedShifted(js[n], g.groupStart)
            <=> ((js[n].start + g.groupStart)..(js[n].end + g.groupStart - 1))
                  \cap HostClaimed = {}

\* A finished HTML call with one script region whose inner text has tokens,
\* all of them returned shifted.
C8_Witness ==
  /\ Done
  /\ language = "html"
  /\ Len(scriptAreas) = 1
  /\ LET g == InnerBounds(1)
         js == tokenizeJavaScript(Slice(code, g.groupStart, g.groupEnd))
     IN  /\ js # <<>>
         /\ g.groupStart > 0
         /\ \A n \in 1..Len(js) : ReturnedShifted(js[n], g.groupStart)

\* The offsets of the opening and closing delimiters of the script regions.
DelimiterOffsets ==
  UNION {(scriptAreas[k].start..(InnerBounds(k).groupStart - 1))
           \cup (InnerBounds(k).groupEnd..(scriptAreas[k].end - 1)) : k \in 1..Len(scriptAreas)}

\* The span of m lies in the inner-text bounds of some script region.
InsideInner(m) ==
  \E k \in 1..Len(scriptAreas) :
    m.index >= InnerBounds(k).groupStart /\ m.end <= InnerBounds(k).groupEnd

\* C9: Host exclusion rule. A host match whose span lies in the inner-text
\* bounds of a script region is discarded and claims nothing; a host match
\* that covers any offset of an opening or closing delimiter is never
\* discarded by this rule: it is emitted if and only if its span is free.
C9_HostExclusion ==
  [][ (pc = "host" /\ HostExec.found) =>
        LET m == HostExec
        IN  /\ InsideInner(m) => (tokens' = tokens /\ processed' = processed)
            /\ (MatchSpan(m) \cap DelimiterOffsets # {}) =>
                 /\ ~InsideInner(m)
                 /\ (tokens' # tokens) <=> (MatchSpan(m) \cap processed = {}) ]_vars

\* A finished HTML call in which a host match inside the inner text of a
\* script region was discarded and no host token covers any of its offsets.
C9_Witness ==
  /\ Done
  /\ language = "html"
  /\ \E p \in 1..Len(HtmlPatterns) :
       \E m \in HostMatches(p) :
         /\ InsideInner(m)
         /\ \A t \in HostTokens : ~(t.start = m.index /\ t.end = m.end)
         /\ MatchSpan(m) \cap HostClaimed = {}

\* The host pass pushed a tag token spanning exactly [s, e).
TagToken(s, e) ==
  \E t \in HostTokens : t.type = "tag" /\ t.start = s /\ t.end = e

\* C10 as claimed: both delimiters of every script region are emitted as tag
\* tokens and no host token covers an offset of the inner text.
C10_DelimitersAlwaysTags ==
  (Done /\ language = "html") =>
    \A k \in 1..Len(scriptAreas) :
      /\ TagToken(scriptAreas[k].start, InnerBounds(k).groupStart)
      /\ TagToken(InnerBounds(k).groupEnd, scriptAreas[k].end)
      /\ HostClaimed \cap (InnerBounds(k).groupStart..(InnerBounds(k).groupEnd - 1)) = {}

\* No match of a host pattern other than the tag match [s, e) itself meets [s, e).
Untouched(s, e) ==
  \A p \in 1..Len(HtmlPatterns) :
    \A m \in HostMatches(p) :
      MatchSpan(m) \cap (s..(e - 1)) # {}
        => (HtmlPatterns[p].name = "tag" /\ m.index = s /\ m.end = e)

\* C10: Boundary markers and reserved interior. A delimiter of a script
\* region is emitted as a host tag token whenever no other host-pattern
\* match overlaps it, and no host token lies wholly in the inner-text bounds
\* of a script region: a host token covers inner text only by straddling a bound.
C10_BoundaryMarkers ==
  (Done /\ language = "html") =>
    \A k \in 1..Len(scriptAreas) :
      LET lo == InnerBounds(k).groupStart
          hi == InnerBounds(k).groupEnd
      IN  /\ Untouched(scriptAreas[k].start, lo) => TagToken(scriptAreas[k].start, lo)
          /\ Untouched(hi, scriptAreas[k].end) => TagToken(hi, scriptAreas[k].end)
          /\ \A t \in HostTokens : ~(t.start >= lo /\ t.end <= hi)

\* A finished HTML call with a script region that has inner-text tokens and
\* both delimiters emitted as tag tokens.
C10_Witness ==
  /\ Done
  /\ language = "html"
  /\ EmbeddedTokens # {}
  /\ \E k \in 1..Len(scriptAreas) :
       /\ TagToken(scriptAreas[k].start, InnerBounds(k).groupStart)
       /\ TagToken(InnerBounds(k).groupEnd, scriptAreas[k].end)

\* The tokens of the inner text of the script region a, shifted to offsets of
\* the full input, in the order step 3 offers them to the claim check.
Translated(a) ==
  IF HasContent(a.content)
  THEN LET js == tokenizeJavaScript(a.content)
       IN  [n \in 1..Len(js) |-> AdjustToken(js[n], a.openTagEnd)]
  ELSE <<>>

\* The tokens a step pushed.
Pushed == {tokens'[k] : k \in (Len(tokens) + 1)..Len(tokens')}

\* Step 3 for one script region keeps the tokens pushed before it, pushes a
\* translated token exactly when its span was free, pushes nothing else and
\* claims the spans of what it pushed.
MergeStep ==
  pc = "embed" =>
    LET tr == Translated(scriptAreas[area])
    IN  /\ Len(tokens') >= Len(tokens)
        /\ SubSeq(tokens', 1, Len(tokens)) = tokens
        /\ \A n \in 1..Len(tr) :
             (tr[n] \in Pushed) <=> (TokenSpan(tr[n]) \cap processed = {})
        /\ \A t \in Pushed : \E n \in 1..Len(tr) : tr[n] = t
        /\ processed' = processed \cup UNION {TokenSpan(t) : t \in Pushed}

\* The returned list holds every host token as the host pass pushed it, and
\* no offset is covered by a host token and by a translated one.
MergeOutcome ==
  (Done /\ language = "html") =>
    /\ \A t \in HostTokens : \E i \in 1..Len(result) : result[i] = t
    /\ \A h \in HostTokens, e \in EmbeddedTokens : TokenSpan(h) \cap TokenSpan(e) = {}

\* C11: Merge rule. Every host token accepted in the host pass of
\* tokenizeHtml is in the final output unchanged; a translated JavaScript
\* token is kept if and only if none of its offsets was already claimed, and
\* a kept token marks its offsets claimed, so no offset is covered by both a
\* host token and an embedded one.
C11_MergeRule == [][MergeStep]_vars /\ []MergeOutcome

\* A finished HTML call with host tokens in which a translated token of a
\* script region was refused because a host token had claimed its offsets.
C11_Witness ==
  /\ Done
  /\ language = "html"
  /\ HostTokens # {}
  /\ \E k \in 1..Len(scriptAreas) :
       LET tr == Translated(scriptAreas[k])
       IN  \E n \in 1..Len(tr) :
             /\ TokenSpan(tr[n]) \cap HostClaimed # {}
             /\ \A i \in 1..Len(result) : result[i] # tr[n]

\* The offsets at which a script opening delimiter starts that no closing
\* delimiter follows.
UnclosedOpeners ==
  {i \in 0..(Len(code) - 1) :
     /\ MatchScriptTagOpen(code, i) # NoMatch
     /\ FindCI(code, MatchScriptTagOpen(code, i), ScriptClose) = NoMatch}

\* C12: Unclosed region. A script opening delimiter with no closing
\* delimiter after it is not recognized: no script region is recorded for
\* it, no JavaScript token is returned for the text after it, and host
\* matches in that text are examined by the host rules alone (the script
\* exclusion discards none of them).
C12_UnclosedRegion ==
  (Done /\ language = "html") =>
    \A i \in UnclosedOpeners :
      LET from == MatchScriptTagOpen(code, i)
      IN  /\ \A k \in 1..Len(scriptAreas) : scriptAreas[k].start # i /\ scriptAreas[k].end <= i
          /\ \A t \in EmbeddedTokens : t.end <= i
          /\ \A n \in 1..Len(result) :
               result[n].start >= from => result[n] \in HostTokens
          /\ \A p \in 1..Len(HtmlPatterns) :
               \A m \in HostMatches(p) :
                 m.index >= from =>
                   /\ ~InsideInner(m)
                   /\ Emitted(HtmlPatterns[p].type, m)
                        <=> ~(\E q \in 1..(p - 1) :
                                \E m1 \in HostMatches(q) :
                                  /\ Emitted(HtmlPatterns[q].type, m1)
                                  /\ MatchSpan(m1) \cap MatchSpan(m) # {})

\* A finished HTML call on a text with an unclosed script opening delimiter
\* followed by text that the JavaScript grammar would tokenize and that
\* holds a host token.
C12_Witness ==
  /\ Done
  /\ language = "html"
  /\ \E i \in UnclosedOpeners :
       LET from == MatchScriptTagOpen(code, i)
       IN  /\ tokenizeJavaScript(Slice(code, from, Len(code))) # <<>>
           /\ \E t \in HostTokens : t.start >= from
           /\ \E n \in 1..Len(result) : result[n].start = i /\ result[n].type = "tag"

\* The call of highlight in progress went on to tokenize.
Tokenized == call = "highlight" /\ code # <<>>

\* The characters of text that are not part of a wrapper highlight inserted:
\* what is left from offset i on when every opening wrapper
\* <span class="token T"> and every closing wrapper </span> is removed.
RECURSIVE StripWrappers(_, _)
StripWrappers(text, i) ==
  IF i >= Len(text) THEN <<>>
  ELSE IF StartsWith(text, i, SpanOpen)
       THEN StripWrappers(text, Find(text, i, <<"\"", ">">>) + 2)
       ELSE IF StartsWith(text, i, SpanClose)
            THEN StripWrappers(text, i + Len(SpanClose))
            ELSE <<CharAt(text, i)>> \o StripWrappers(text, i + 1)

\* The five entities and the characters they stand for.
Entities ==
  { [text |-> <<"&","l","t",";">>,         char |-> "<"],
    [text |-> <<"&","g","t",";">>,         char |-> ">"],
    [text |-> <<"&","a","m","p",";">>,     char |-> "&"],
    [text |-> <<"&","q","u","o","t",";">>, char |-> "\""],
    [text |-> <<"&","#","3","9",";">>,     char |-> "'"] }

\* The text an escaped text stands for, read from offset i on: each entity is
\* read back as its character; an ampersand that starts no entity is kept
\* doubled so that no source text is read back from it.
RECURSIVE Unescape(_, _)
Unescape(text, i) ==
  IF i >= Len(text) THEN <<>>
  ELSE IF \E e \in Entities : StartsWith(text, i, e.text)
       THEN LET e == CHOOSE e \in Entities : StartsWith(text, i, e.text)
            IN  <<e.char>> \o Unescape(text, i + Len(e.text))
       ELSE IF CharAt(text, i) = "&"
            THEN <<"&", "&">> \o Unescape(text, i + 1)
            ELSE <<CharAt(text, i)>> \o Unescape(text, i + 1)

\* The characters escapeHtml has to replace.
Special == {"<", ">", "\"", "'"}

HasSpecial(text) == \E k \in 1..Len(text) : text[k] \in Special \cup {"&"}

\* C13: highlight never throws and always returns a string, whatever the
\* value given as code (string, null, undefined, number, boolean, object,
\* array, symbol, function) and as options (object, null, undefined, string,
\* number, unknown or falsy language).
C13_NeverThrows ==
  /\ Returned("highlight") => output.kind = "string"
  /\ call = "highlight" => pc \in {"locate", "host", "embed", "js", "done", "returned"}

\* A call of highlight that returned after String(code) threw inside it.
C13_Witness ==
  /\ Returned("highlight")
  /\ arg = BareObject
  /\ options = JsNull
  /\ output = Str(<<>>)

\* C14: highlight returns '' for code null, undefined or ''; any other code
\* v that is not a string is converted with String(v) and the call returns
\* what highlight(String(v), options) returns.
C14_Coercion ==
  Returned("highlight") =>
    /\ arg \in {JsNull, JsUndefined, Str(<<>>)} => output = Str(<<>>)
    /\ (arg.kind \notin {"string", "null", "undefined"} /\ ~ToStringThrows(arg)) =>
         /\ output = highlight(Str(ToStringText(arg)), options)
         /\ (ToStringText(arg) # <<>> /\ ~LanguageReadThrows(options)) =>
              code = ToStringText(arg)

\* A call of highlight on the number 42 that returned it wrapped as a token.
C14_Witness ==
  /\ Returned("highlight")
  /\ arg = Num(42)
  /\ output = Str(wrapToken(<<"4","2">>, "number"))

\* C15: Error fallback. When String(code) or the read of options.language
\* raises inside highlight, the call returns escapeHtml of the string code
\* had become, or '' when code was not a string when the error was raised;
\* the error does not leave the call and the output holds no wrapper.
C15_ErrorFallback ==
  Returned("highlight") =>
    /\ (arg.kind \notin {"string", "null", "undefined"} /\ ToStringThrows(arg)) =>
         output = Str(<<>>)
    /\ (/\ arg.kind \notin {"null", "undefined"}
        /\ ~ToStringThrows(arg)
        /\ ToStringText(arg) # <<>>
        /\ LanguageReadThrows(options)) =>
         /\ output.kind = "string"
         /\ Unescape(output.val, 0) = ToStringText(arg)
         /\ \A k \in 1..Len(output.val) : output.val[k] \notin Special
         /\ result = <<>>

\* A call of highlight that returned the escaped text after the read of
\* options.language threw, for a text with characters to escape and tokens.
C15_Witness ==
  /\ Returned("highlight")
  /\ options = OptionsThrowing
  /\ arg.kind = "string"
  /\ HasSpecial(arg.val)
  /\ tokenize(arg.val, detectLanguage(arg.val)) # <<>>
  /\ output.val # arg.val

\* The language the options name: 'js' or 'html' given exactly so as the
\* language property of an options object, none otherwise.
NamedLanguage(o) ==
  IF o.kind = "object" /\ o.val = Str(<<"j","s">>) THEN "js"
  ELSE IF o.kind = "object" /\ o.val = Str(<<"h","t","m","l">>) THEN "html"
  ELSE "none"

\* C16: Language resolution. highlight tokenizes with options.language when
\* it is exactly 'js' or 'html', even if auto-detection would choose the
\* other; for any other options value it tokenizes with
\* detectLanguage(code), so the call returns what highlight(code) returns.
C16_LanguageResolution ==
  Tokenized =>
    /\ language = IF NamedLanguage(options) = "none" THEN detectLanguage(code)
                  ELSE NamedLanguage(options)
    /\ (pc = "returned" /\ NamedLanguage(options) = "none") =>
         output = highlight(arg, JsUndefined)

\* A call of highlight that returned tokens of the JavaScript grammar for a
\* text auto-detection takes for HTML.
C16_Witness ==
  /\ Returned("highlight")
  /\ options = OptionsObject(Str(<<"j","s">>))
  /\ detectLanguage(code) = "html"
  /\ result # <<>>
  /\ output # highlight(arg, JsUndefined)

\* C17: Text preservation and escaping. With the wrappers highlight inserted
\* removed, the output is escapeHtml(code): every source character once, in
\* order, escaped, and no unescaped <, >, " or ' of the input.
C17_TextPreservation ==
  (Returned("highlight") /\ Tokenized) =>
    LET bare == StripWrappers(output.val, 0)
    IN  /\ bare = escapeText(code)
        /\ Unescape(bare, 0) = code
        /\ \A k \in 1..Len(bare) : bare[k] \notin Special

\* The offsets of code no returned token covers.
Uncovered == (0..(Len(code) - 1)) \ UNION {TokenSpan(result[n]) : n \in 1..Len(result)}

\* A call of highlight that returned two or more tokens, with a character to
\* escape inside a token and another one between tokens.
C17_Witness ==
  /\ Returned("highlight")
  /\ Len(result) >= 2
  /\ \E n \in 1..Len(result) : HasSpecial(result[n].value)
  /\ \E i \in Uncovered :
       /\ CharAt(code, i) \in Special \cup {"&"}
       /\ i < result[Len(result)].start

\* No pattern of the grammar the call uses matches anywhere in code.
NoPatternMatches ==
  IF language = "html"
  THEN \A p \in 1..Len(HtmlPatterns) : HostMatches(p) = {}
  ELSE \A p \in 1..Len(JsPatterns) : JsMatches(p) = {}

\* C18: Empty and non-lexical input. tokenize returns the empty list for ''
\* and for a text in which no pattern matches, in both grammars; highlight
\* then returns escapeHtml(code) with no wrapper, and a text of white space
\* only as it is.  (highlight returns '' for '' before it tokenizes, so the
\* empty text is put to tokenize itself, between calls.)
C18_NonLexical ==
  /\ pc = "idle" => \A l \in Languages : tokenize(<<>>, l) = <<>>
  /\ (Returned("highlight") /\ Tokenized /\ NoPatternMatches) =>
       /\ result = <<>>
       /\ output = Str(escapeText(code))
       /\ StripWrappers(output.val, 0) = output.val
       /\ Unescape(output.val, 0) = code
       /\ (\A k \in 1..Len(code) : code[k] \in WhiteSpace) => output.val = code

\* A call of highlight that returned, escaped and without wrapper, an HTML
\* text in which no pattern matches.
C18_Witness ==
  /\ Returned("highlight")
  /\ Tokenized
  /\ language = "html"
  /\ NoPatternMatches
  /\ HasSpecial(code)
  /\ output.val # code

\* The number of characters an entity is longer than the character it stands for.
Growth(c) ==
  CASE c \in {"<", ">"} -> 3
    [] c \in {"&", "'"} -> 4
    [] c = "\""         -> 5
    [] OTHER            -> 0

RECURSIVE TotalGrowth(_, _)
TotalGrowth(text, i) ==
  IF i >= Len(text) THEN 0 ELSE Growth(CharAt(text, i)) + TotalGrowth(text, i + 1)

\* C19: escapeHtml replaces every <, >, &, " and ' by &lt;, &gt;, &amp;,
\* &quot; and &#39; in a single pass (an entity it produced is not escaped
\* again), leaves the other characters unchanged and in order, returns ''
\* for null and undefined, and escapes String(v) for another value v that
\* is not a string.
C19_EscapeHtml ==
  Returned("escapeHtml") =>
    /\ arg.kind \in {"null", "undefined"} => output = Str(<<>>)
    /\ (arg.kind \notin {"null", "undefined"} /\ ~ToStringThrows(arg)) =>
         LET text == ToStringText(arg)
         IN  /\ output.kind = "string"
             /\ \A k \in 1..Len(output.val) : output.val[k] \notin Special
             /\ Unescape(output.val, 0) = text
             /\ Len(output.val) = Len(text) + TotalGrowth(text, 0)

\* A call of escapeHtml on a text that holds an entity and a character to escape.
C19_Witness ==
  /\ Returned("escapeHtml")
  /\ arg = Str(<<"&","l","t",";","'","a">>)
  /\ output = Str(<<"&","a","m","p",";","l","t",";","&","#","3","9",";","a">>)

\* C20: detectLanguage returns 'js' for empty or white-space-only code;
\* otherwise 'html' exactly when the code holds < followed at once by an
\* ASCII letter, ! or ?, or </ followed at once by an ASCII letter;
\* otherwise 'js'.
C20_DetectLanguage ==
  Returned("detectLanguage") =>
    LET text == arg.val
        blank == \A k \in 1..Len(text) : text[k] \in WhiteSpace
        tagLike ==
          \E k \in 1..(Len(text) - 1) :
            /\ text[k] = "<"
            /\ \/ text[k + 1] \in Letters \cup {"!", "?"}
               \/ /\ k + 2 <= Len(text)
                  /\ text[k + 1] = "/"
                  /\ text[k + 2] \in Letters
    IN  output = Lang(IF ~blank /\ tagLike THEN "html" ELSE "js")

\* A call of detectLanguage that returned 'html' for a text whose only tag
\* opening is <?.
C20_Witness ==
  /\ Returned("detectLanguage")
  /\ arg = Str(<<"1", " ", "<", "?">>)
  /\ output = Lang("html")

\* C21: detectLanguage as the documented one-line implementation states it:
\* 'html' exactly when code is not empty and holds < followed at once by an
\* ASCII letter, !, ? or /, and 'js' otherwise.
C21_DocumentedDetect ==
  Returned("detectLanguage") =>
    LET text == arg.val
        tagLike ==
          \E k \in 1..(Len(text) - 1) :
            text[k] = "<" /\ text[k + 1] \in Letters \cup {"!", "?", "/"}
    IN  output = Lang(IF text # <<>> /\ tagLike THEN "html" ELSE "js")

\* The matches of the single-line-comment regex of the pattern table,
\* compiled with the flags the table gives it, on src.
TableCommentMatches(src) ==
  ScanMatches(JsPatterns[1].name, JsPatterns[1].flags, src, 0)

\* C22: Single-line comments. In JavaScript tokenization, directly or inside
\* a script region, a // comment on any line of the input is emitted as one
\* comment token from the // to the end of that line, and the matcher used
\* for a scan matches the same spans as the regex of the pattern table with
\* its own flags.
C22_SingleLineComments ==
  /\ (Done /\ language = "js") =>
       /\ \A m \in TableCommentMatches(code) : Emitted("comment", m)
       /\ \A p \in 1..Len(JsPatterns) :
            JsMatches(p) = ScanMatches(JsPatterns[p].name, JsPatterns[p].flags, code, 0)
  /\ (Done /\ language = "html") =>
       \A k \in 1..Len(scriptAreas) :
         \A m \in TableCommentMatches(scriptAreas[k].content) :
           LET s == m.index + scriptAreas[k].openTagEnd
               e == m.end + scriptAreas[k].openTagEnd
           IN  (s..(e - 1)) \cap HostClaimed = {}
                 => Emitted("comment", [index |-> s, end |-> e])

\* The tokens and the claim set tokenizeHtml holds when step 3 stands at the
\* script region k: those of step 2 and of the regions before k.
BeforeArea(k) ==
  EmbedScan(HostScan(code, scriptAreas, 1, 0, <<>>, NewProcessed({})),
            SubSeq(scriptAreas, 1, k - 1), 1)

\* C23: Interleaving independence. When two invocations of the engine are
\* live at once over the same pattern tables and regex cache, each returns
\* exactly the token list it would return if it ran alone, and neither
\* observes or changes the other's claim set, token list or matcher cursor:
\* the nested invocation returns tokenizeJavaScript of its own text whatever
\* its caller has claimed, the caller's token list, claim set and cursor stay
\* what they were while the nested invocation runs, and every finished call
\* returns the list of a call that ran on a fresh module.
C23_InterleavingIndependence ==
  /\ Done => result = tokenize(code, language)
  /\ nested.pc # "idle" =>
       /\ pc = "embed"
       /\ nested.code = scriptAreas[area].content
  /\ nested.pc = "done" => nested.result = tokenizeJavaScript(nested.code)
  /\ nested.pc = "js" =>
       /\ Len(nested.tokens) <= Len(tokenizeJavaScript(nested.code))
       /\ \A k \in 1..Len(nested.tokens) :
            \E n \in 1..Len(tokenizeJavaScript(nested.code)) :
              tokenizeJavaScript(nested.code)[n] = nested.tokens[k]
  /\ pc = "embed" =>
       /\ tokens = BeforeArea(area).tokens
       /\ processed = BeforeArea(area).processed
       /\ lastIndex = 0

\* The nested invocation for the second script region has returned tokens,
\* while its caller holds host tokens and the tokens of the first region.
C23_Witness ==
  /\ pc = "embed"
  /\ nested.pc = "done"
  /\ area = 2
  /\ nested.result # <<>>
  /\ HostTokens # {}
  /\ EmbeddedTokens # {}
  /\ processed # {}

\* C24: Termination of the scan loops. On every finite input and every
\* pattern table, patterns whose matches can be empty included, every trip
\* of every scan loop (the script-region locator, each host pattern, each
\* JavaScript pattern) leaves the matcher's cursor strictly beyond where the
\* trip found it: a cursor that did not pass the match start is forced
\* forward by one.
C24_CursorStrictlyIncreases ==
  /\ (pc = "locate" /\ ExecScriptContent(code, lastIndex).found)
       => AdvanceCursor(ExecScriptContent(code, lastIndex)) > lastIndex
  /\ (pc = "host" /\ HostExec.found)
       => HostCursor(scriptAreas, HostExec) > lastIndex
  /\ (pc = "js" /\ JsExec.found)
       => AdvanceCursor(JsExec) > regexCache[JsKey]

\* C25: Pattern caching. Once a highlight call has returned, the first one
\* included, the regex cache holds exactly one compiled matcher for every
\* (language, pattern name) of the two tables, so that no later call has a
\* matcher to compile or a cache entry to add.
C25_CacheFilledByFirstCall ==
  Returned("highlight") => DOMAIN regexCache = CacheKeys

\* C26: Pattern tables never mutated after construction. A tokenize call for
\* either language leaves every entry of javascriptPatterns and htmlPatterns
\* as it was built, the cursor (lastIndex) of each table regex included, at
\* every step during the call and after it.
C26_TablesNeverMutated ==
  \A k \in DOMAIN tableCursor : tableCursor[k] = 0

\* C30: In the size-optimized tokenizeHtml, contentStart of every script
\* area is the offset of the first character of the area's inner text, the
\* offset at which its opening tag ends, for every input: also when the
\* inner text occurs earlier inside the full match of the area, and when the
\* inner text is empty.
C30_ContentStartIsInnerOffset ==
  (language = "html" /\ pc \in {"compact-host", "compact-embed", "done"}) =>
    \A k \in 1..Len(scriptAreas) :
      /\ scriptAreas[k].contentStart = OpenTagEnd(code, scriptAreas[k].start)
      /\ scriptAreas[k].contentStart + Len(scriptAreas[k].content)
           = scriptAreas[k].end - Len(ScriptClose)

\* The claim set is exactly the offsets of the tokens pushed so far, and no
\* offset is in the span of two of them.
ClaimSetExact ==
  /\ processed = UNION {TokenSpan(tokens[k]) : k \in 1..Len(tokens)}
  /\ \A i \in processed : Cardinality({k \in 1..Len(tokens) : i \in TokenSpan(tokens[k])}) = 1

\* A call is in progress.
InCall == pc \in {"locate", "host", "embed", "js"}

\* C27: Claim-set invariant. At every step of a call the claim set equals
\* exactly the union of the spans of the tokens emitted so far, every claimed
\* offset lies in the span of exactly one emitted token, and a step of the
\* call only adds offsets to the claim set, never removes one.
C27_ClaimSetInvariant ==
  /\ []ClaimSetExact
  /\ [][InCall => processed \subseteq processed']_vars

\* A finished HTML call whose claim set was built by both passes: it pushed
\* host tokens and translated JavaScript tokens, and left offsets unclaimed.
C27_Witness ==
  /\ Done
  /\ language = "html"
  /\ HostTokens # {}
  /\ EmbeddedTokens # {}
  /\ processed # 0..(Len(code) - 1)

\* The record of one script region is well-formed for the text src.
AreaWellFormed(src, a) ==
  /\ a.start < a.openTagEnd
  /\ a.openTagEnd <= a.closeTagStart
  /\ a.closeTagStart < a.end
  /\ a.end <= Len(src)
  /\ a.openTagEnd + Len(a.content) = a.closeTagStart
  /\ a.content = Slice(src, a.openTagEnd, a.closeTagStart)

\* The closing delimiter of the region is the first one after its opening tag.
NearestClose(src, a) == FindCI(src, a.openTagEnd, ScriptClose) = a.closeTagStart

\* C28: Script-area well-formedness. For every script area of a tokenizeHtml
\* call: start < openTagEnd <= closeTagStart < end <= length(code),
\* openTagEnd + length(content) = closeTagStart, and content is
\* code.slice(openTagEnd, closeTagStart); the areas are pairwise
\* non-overlapping and in ascending order, and the opener of each is bound to
\* the nearest closing delimiter that follows it.
C28_ScriptAreasWellFormed ==
  (language = "html" /\ pc \in {"locate", "host", "embed", "done"}) =>
    /\ \A k \in 1..Len(scriptAreas) :
         /\ AreaWellFormed(code, scriptAreas[k])
         /\ NearestClose(code, scriptAreas[k])
    /\ \A j, k \in 1..Len(scriptAreas) :
         j < k => scriptAreas[j].end <= scriptAreas[k].start

\* A finished HTML call with two script areas, the second following the
\* closing delimiter of the first.
C28_Witness ==
  /\ Done
  /\ language = "html"
  /\ Len(scriptAreas) = 2
  /\ scriptAreas[1].end <= scriptAreas[2].start

\* C29: Cursor reset. Every pattern scan of tokenizeJavaScript starts with
\* the cursor of its cached matcher at 0, whatever an earlier call or an
\* earlier script region left there, and when no tokenize call is in
\* progress the cursor of every cached matcher is 0.
C29_CursorReset ==
  /\ [][(pc' = "js" /\ (pc # "js" \/ pat' # pat))
          => regexCache'[<<"js", JsPatterns[pat'].name>>] = 0]_vars
  /\ [](pc \in {"idle", "done", "returned"}
          => \A k \in DOMAIN regexCache : regexCache[k] = 0)

\* A finished JavaScript call that returned tokens: its scans moved the
\* cursors of the cached matchers they ran on.
C29_Witness ==
  /\ Done
  /\ language = "js"
  /\ Len(result) >= 2
  /\ DOMAIN regexCache = CacheKeys

====
